---- MODULE Spec2Model ----
(***************************************************************************)
(* Model of the video-processing pipeline of vid-essence-chat:             *)
(*   server/src/routes/videoRoutes.js   POST /analyze, the background run, *)
(*                                      updateVideoHistory, GET /status    *)
(*                                       DELETE /:videoId                  *)
(*   server/src/models/Video.js         the Video schema and its validators*)
(*   server/src/models/History.js       the History schema, updateAccess   *)
(*   server/src/services/*.js           the external calls of a run, the   *)
(*                                      parsing of completions, prompts    *)
(*   server/src/models/Chat.js          the Chat schema, addMessage        *)
(*   server/src/routes/chatRoutes       POST /start, POST /message,        *)
(*                                      GET /session, PUT /close           *)
(*                                                                         *)
(* Strings are represented by their length, the only attribute the schema  *)
(* validators inspect; an error message is a record of its kind and its    *)
(* length.  Where the characters of a string matter (parsing, truncation)  *)
(* the string is the sequence of its characters.  Every `await` of a       *)
(* handler is a point where other handlers may run, so a handler is one    *)
(* action per database or network round trip.                              *)
(*                                                                         *)
(* Spec is the pipeline, OverlapSpec and StaleSpec the pipeline with a     *)
(* third request, AnalyzeSpec the pipeline with requests given by URL,     *)
(* PollSpec the pipeline with the status route, ServiceSpec a single call  *)
(* of a service method, ChatSpec the message handler of the chat sessions, *)
(* SessionSpec the chat routes together, RemovalSpec the chat routes with  *)
(* DELETE /:videoId, RetrySpec the pipeline beside the message handler.    *)
(***************************************************************************)
EXTENDS Naturals, Sequences, FiniteSets, TLC

VARIABLES videos, history, reqs, runs, nextDocId, call, chats, turns, ops

vars == <<videos, history, reqs, runs, nextDocId, call, chats, turns, ops>>

\* the state of the pipeline, of a service call, of the chat sessions and of
\* the requests to the other routes
pipelineVars == <<videos, history, reqs, runs, nextDocId>>
serviceVars == <<call>>
chatVars == <<chats, turns>>
opVars == <<ops>>

\* ------------------------------------------------------------------------
\* Bounds of the model
\* ------------------------------------------------------------------------

\* number of POST /analyze requests in one behaviour
MaxSubmits == 2

\* the content identifiers (YouTube video ids) requests are about
Contents == {"vidA"}

\* ------------------------------------------------------------------------
\* Video schema (models/Video.js)
\* ------------------------------------------------------------------------

TitleMaxLen == 500
ChannelMaxLen == 200
SummaryMaxLen == 10000
KeyPointMaxLen == 1000
TagMaxLen == 50
ErrorMaxLen == 1000

\* processingError is undefined until a run fails
NoError == [kind |-> "none", len |-> 0]

\* the result of a query that matched no document
NoDoc ==
  [id |-> 0, videoId |-> "", title |-> 0, thumbnailUrl |-> 0,
   channelName |-> 0, transcript |-> 0, summary |-> 0, keyPoints |-> <<>>,
   tags |-> <<>>, processingStatus |-> "none", processingError |-> NoError,
   v |-> 0]

\* the paths a save can write
VideoPaths ==
  {"videoId", "title", "thumbnailUrl", "channelName", "transcript", "summary",
   "keyPoints", "tags", "processingStatus", "processingError"}

TooLong(s, max) == \E k \in DOMAIN s : s[k] > max

SumLens(s) ==
  LET RECURSIVE Sum(_)
      Sum(k) == IF k = 0 THEN 0 ELSE s[k] + Sum(k - 1)
  IN Sum(Len(s))

\* a schema whose String paths are not required
RequiredFailsNothing(d) == {}

\* `required` on a String path rejects the empty string; maxlength rejects
\* longer values
RequiredFails(d) ==
  {p \in {"title", "thumbnailUrl", "channelName", "transcript", "summary"} : d[p] = 0}

MaxLengthFails(d) ==
  (IF d.title > TitleMaxLen THEN {"title"} ELSE {})
    \cup (IF d.channelName > ChannelMaxLen THEN {"channelName"} ELSE {})
    \cup (IF d.summary > SummaryMaxLen THEN {"summary"} ELSE {})
    \cup (IF TooLong(d.keyPoints, KeyPointMaxLen) THEN {"keyPoints"} ELSE {})
    \cup (IF TooLong(d.tags, TagMaxLen) THEN {"tags"} ELSE {})
    \cup (IF d.processingError.len > ErrorMaxLen THEN {"processingError"} ELSE {})

Valid(d) == RequiredFails(d) = {} /\ MaxLengthFails(d) = {}

\* "Video validation failed: <path>: <message>, ...": a maxlength message
\* quotes the rejected value, so it is longer than the value
ValidationError(d) ==
  LET quoted(p) == IF p \in {"keyPoints", "tags"} THEN SumLens(d[p])
                   ELSE IF p = "processingError" THEN d[p].len ELSE d[p]
      RECURSIVE Total(_)
      Total(ps) == IF ps = {} THEN 0
                   ELSE LET p == CHOOSE q \in ps : TRUE
                        IN 70 + quoted(p) + Total(ps \ {p})
  IN [kind |-> "validation",
      len |-> 24 + 40 * Cardinality(RequiredFails(d)) + Total(MaxLengthFails(d))]

VersionError == [kind |-> "version", len |-> 90]
NotFoundError == [kind |-> "notfound", len |-> 80]
DuplicateKeyError == [kind |-> "duplicate", len |-> 100]

\* ------------------------------------------------------------------------
\* The Video collection (unique index on videoId) and document saves
\* ------------------------------------------------------------------------

Exists(d) == d.id # 0

\* Video.findById
FindById(id) == IF id \in DOMAIN videos THEN videos[id] ELSE NoDoc

\* Video.findByVideoId: findOne({ videoId })
FindByVideoId(c) ==
  IF \E id \in DOMAIN videos : videos[id].videoId = c
    THEN videos[CHOOSE id \in DOMAIN videos : videos[id].videoId = c]
    ELSE NoDoc

\* the paths of an in-memory document that differ from what was loaded
Modified(snap, doc) == {p \in VideoPaths : doc[p] # snap[p]}

\* a whole-array $set is sent with the version the document was loaded at
TouchesArrays(snap, doc) == Modified(snap, doc) \cap {"keyPoints", "tags"} # {}

\* the stored document after $set of the modified paths
Written(stored, snap, doc) ==
  [p \in DOMAIN stored |->
     IF p \in Modified(snap, doc) THEN doc[p]
     ELSE IF p = "v" /\ TouchesArrays(snap, doc) THEN stored.v + 1
     ELSE stored[p]]

\* doc.save() of a document loaded as snap: the error it rejects with, or
\* NoError.  Validation runs first; an update that matches no document is
\* rejected.  stale: the stored version moved on and the driver refuses
\* the array write.
SaveError(snap, doc, stale) ==
  IF ~Valid(doc) THEN ValidationError(doc)
  ELSE IF Modified(snap, doc) = {} THEN NoError
  ELSE IF snap.id \notin DOMAIN videos THEN NotFoundError
  ELSE IF stale /\ TouchesArrays(snap, doc) /\ videos[snap.id].v # snap.v
         THEN VersionError
  ELSE NoError

\* the collection after doc.save() resolved
Saved(snap, doc) ==
  IF Modified(snap, doc) = {} THEN videos
  ELSE [videos EXCEPT ![snap.id] = Written(videos[snap.id], snap, doc)]

\* new Video({...}) of POST /analyze: placeholder values until the run ends
NewVideo(c) ==
  [id |-> nextDocId, videoId |-> c, title |-> 13, thumbnailUrl |-> 0,
   channelName |-> 0, transcript |-> 0, summary |-> 0, keyPoints |-> <<>>,
   tags |-> <<>>, processingStatus |-> "processing",
   processingError |-> NoError, v |-> 0]

\* an insert that is neither validated nor checked against the index
InsertErrorNever(doc) == NoError

\* save() of a new document: validation, then the insert under the unique
\* index on videoId
InsertError(doc) ==
  IF ~Valid(doc) THEN ValidationError(doc)
  ELSE IF Exists(FindByVideoId(doc.videoId)) THEN DuplicateKeyError
  ELSE NoError

Inserted(doc) == [id \in DOMAIN videos \cup {doc.id} |->
                    IF id = doc.id THEN doc ELSE videos[id]]

\* ------------------------------------------------------------------------
\* External calls of a run (services/youtubeService.js, services/aiService.js)
\* ------------------------------------------------------------------------

\* lengths of the messages getVideoInfo wraps: 'All video info extraction
\* methods failed'
LibMsgLens == {40}

\* lengths of the messages makeRequest throws with: the shortest one,
\* 'AI service error: ' + an empty message
MakeRequestErrorLens == {18}

\* getVideoInfo: the metadata, or all three methods failed
InfoOutcomes ==
  {[ok |-> TRUE, msg |-> 0]} \cup {[ok |-> FALSE, msg |-> m] : m \in LibMsgLens}

\* getTranscript: the joined, trimmed caption text (empty when every caption
\* is blank), or no transcript in any language
TranscriptOutcomes ==
  {[ok |-> TRUE, len |-> 0], [ok |-> TRUE, len |-> 120], [ok |-> FALSE, len |-> 0]}

\* the content of a completion, or the message makeRequest throws with
SummaryOutcomes ==
  {[ok |-> TRUE, len |-> l] : l \in {0, 300, 10001}}
    \cup {[ok |-> FALSE, len |-> m] : m \in MakeRequestErrorLens}

KeyPointsOutcomes ==
  {[ok |-> TRUE, points |-> <<40>>, len |-> 0]}
    \cup {[ok |-> FALSE, points |-> <<>>, len |-> m] : m \in MakeRequestErrorLens}

TagsOutcomes ==
  {[ok |-> TRUE, tags |-> <<8>>], [ok |-> FALSE, tags |-> <<>>]}

\* the locals of a run before extraction returned
NoData == [title |-> 0, thumbnailUrl |-> 0, channelName |-> 0, transcript |-> 0]

\* a fallback that synthesizes nothing
FallbackTranscriptEmpty(title, channelName) == 0

\* processVideo: 'Video Title: ..\n\nChannel: ..\n\nDescription: ..\n\nNote: ..'
FallbackTranscript(title, channelName) == 13 + title + 11 + channelName + 15 + 25 + 64

\* processVideo(url): getVideoInfo, then getTranscript with the fallback
\* content; a failure is rethrown as 'Video processing failed: Failed to
\* get video information: ' + message
ProcessVideo(info, trans) ==
  IF ~info.ok
    THEN [ok |-> FALSE, data |-> NoData,
          err |-> [kind |-> "extraction", len |-> 25 + 33 + info.msg]]
    ELSE [ok |-> TRUE,
          data |-> [title |-> 30, thumbnailUrl |-> 48, channelName |-> 12,
                    transcript |-> IF trans.ok THEN trans.len
                                   ELSE FallbackTranscript(30, 12)],
          err |-> NoError]

\* generateSummary rethrows as 'Failed to generate video summary: ' + message
SummaryError(out) == [kind |-> "summary", len |-> 34 + out.len]

\* extractKeyPoints rethrows as 'Failed to extract key points: ' + message
KeyPointsError(out) == [kind |-> "keypoints", len |-> 30 + out.len]

\* a generateTags that returns one empty tag when the completion fails
GenerateTagsPlaceholder(out) == IF out.ok THEN out.tags ELSE <<0>>

\* generateTags returns [] when the completion fails
GenerateTags(out) == IF out.ok THEN out.tags ELSE <<>>

\* ------------------------------------------------------------------------
\* History collection (models/History.js): accessCount per videoId, 0 when
\* the videoId has no entry; the index on videoId is unique
\* ------------------------------------------------------------------------

\* updateVideoHistory after its findOne returned found: updateAccess() on
\* the entry found, or History.create; a rejected write is only logged
HistoryUpdated(c, found) ==
  IF found > 0
    THEN IF history[c] > 0 THEN [history EXCEPT ![c] = found + 1] ELSE history
    ELSE IF history[c] > 0 THEN history ELSE [history EXCEPT ![c] = 1]

\* ------------------------------------------------------------------------
\* State
\* ------------------------------------------------------------------------

\* The collection outlives the server process: when the server starts it
\* holds, for each contentId, no document or one schema-valid document that
\* an earlier process left processing, failed (with the message of its
\* failure) or completed.  No run survives a restart.

\* the _id of the stored document of a contentId
SeedId == [vidA |-> 1]

SeedVideo(c, st) ==
  [id |-> SeedId[c], videoId |-> c, title |-> 20, thumbnailUrl |-> 48,
   channelName |-> 10, transcript |-> 90, summary |-> 200, keyPoints |-> <<35>>,
   tags |-> <<6>>, processingStatus |-> st,
   processingError |-> IF st = "failed"
                         THEN ProcessVideo([ok |-> FALSE, msg |-> 40],
                                           [ok |-> FALSE, len |-> 0]).err
                         ELSE NoError,
   v |-> 0]

SeedStatuses == {"absent", "processing", "failed", "completed"}

\* no service call is being examined
NoCall == [op |-> "none", input |-> <<>>, out |-> <<>>, done |-> FALSE]

NewRequest(c, found, branch) ==
  [c |-> c, found |-> found.processingStatus, pc |-> branch, snap |-> found,
   hsnap |-> 0, resp |-> "none", body |-> NoDoc, jobId |-> 0]

NewRun(id, c, by) ==
  [doc |-> id, c |-> c, by |-> by, pc |-> "find", snap |-> NoDoc,
   data |-> NoData, summary |-> 0, keyPoints |-> <<>>, tags |-> <<>>,
   err |-> NoError, hsnap |-> 0, calls |-> <<>>, failed |-> "none",
   outcome |-> "none"]

Init ==
  /\ \E st \in [Contents -> SeedStatuses] :
       /\ videos = [id \in {SeedId[c] : c \in {x \in Contents : st[x] # "absent"}} |->
                      LET c == CHOOSE x \in Contents : SeedId[x] = id
                      IN SeedVideo(c, st[c])]
       /\ history = [c \in Contents |-> IF st[c] = "completed" THEN 1 ELSE 0]
  /\ reqs = <<>>
  /\ runs = <<>>
  /\ nextDocId = Cardinality(Contents) + 1
  /\ call = NoCall
  /\ chats = <<>>
  /\ turns = <<>>
  /\ ops = <<>>

\* ------------------------------------------------------------------------
\* POST /api/videos/analyze
\* ------------------------------------------------------------------------

\* the handler sent its response: res.json(..) with the stored record or
\* with { videoId: _id, status: 'processing' }, or status 500; its locals
\* are dead (found keeps the status its findByVideoId saw)
Answered(req, resp, body, jobId) ==
  [req EXCEPT !.pc = "done", !.resp = resp, !.body = body, !.jobId = jobId,
              !.snap = NoDoc, !.hsnap = 0]

\* a handler without the check for a completed record
SubmitBranchNoCacheHit(found) == IF ~Exists(found) THEN "create" ELSE "update"

\* a handler that treats a failed record as absent
SubmitBranchFailedCreates(found) ==
  IF Exists(found) /\ found.processingStatus = "completed" THEN "history"
  ELSE IF ~Exists(found) \/ found.processingStatus = "failed" THEN "create"
  ELSE "update"

\* where the handler goes after findByVideoId returned found
SubmitBranch(found) ==
  IF Exists(found) /\ found.processingStatus = "completed" THEN "history"
  ELSE IF ~Exists(found) THEN "create"
  ELSE "update"

\* the request arrives and its findByVideoId is answered; n caps the number
\* of requests explored
SubmitWithin(c, n) ==
  /\ Len(reqs) < n
  /\ LET found == FindByVideoId(c)
     IN reqs' = Append(reqs, NewRequest(c, found, SubmitBranch(found)))
  /\ UNCHANGED <<videos, history, runs, nextDocId>>
  /\ UNCHANGED <<serviceVars, chatVars, opVars>>

Submit(c) == SubmitWithin(c, MaxSubmits)

\* cache hit: updateVideoHistory's findOne is answered
SubmitHistoryFind(i) ==
  /\ reqs[i].pc = "history"
  /\ reqs' = [reqs EXCEPT ![i].hsnap = history[reqs[i].c], ![i].pc = "touch"]
  /\ UNCHANGED <<videos, history, runs, nextDocId>>
  /\ UNCHANGED <<serviceVars, chatVars, opVars>>

\* cache hit: the history write is answered and the stored record returned
SubmitHistoryWrite(i) ==
  /\ reqs[i].pc = "touch"
  /\ history' = HistoryUpdated(reqs[i].c, reqs[i].hsnap)
  /\ reqs' = [reqs EXCEPT ![i] = Answered(reqs[i], "cached", reqs[i].snap, 0)]
  /\ UNCHANGED <<videos, runs, nextDocId>>
  /\ UNCHANGED <<serviceVars, chatVars, opVars>>

\* no record found: new Video(..).save(), then the run is started and the
\* response sent; a rejected save is answered with 500
SubmitCreate(i) ==
  /\ reqs[i].pc = "create"
  /\ LET doc == NewVideo(reqs[i].c)
         e == InsertError(doc)
     IN IF e = NoError
          THEN /\ videos' = Inserted(doc)
               /\ nextDocId' = nextDocId + 1
               /\ runs' = Append(runs, NewRun(doc.id, reqs[i].c, i))
               /\ reqs' = [reqs EXCEPT ![i] =
                             Answered(reqs[i], "started", NoDoc, doc.id)]
          ELSE /\ reqs' = [reqs EXCEPT ![i] =
                             Answered(reqs[i], "error500", NoDoc, 0)]
               /\ UNCHANGED <<videos, nextDocId, runs>>
  /\ UNCHANGED history
  /\ UNCHANGED <<serviceVars, chatVars, opVars>>

\* a record that is not completed was found: it is set to processing and
\* saved, then the run is started and the response sent
SubmitUpdate(i) ==
  /\ reqs[i].pc = "update"
  /\ LET snap == reqs[i].snap
         doc == [snap EXCEPT !.processingStatus = "processing"]
         e == SaveError(snap, doc, FALSE)
     IN IF e = NoError
          THEN /\ videos' = Saved(snap, doc)
               /\ runs' = Append(runs, NewRun(snap.id, reqs[i].c, i))
               /\ reqs' = [reqs EXCEPT ![i] =
                             Answered(reqs[i], "started", NoDoc, snap.id)]
          ELSE /\ reqs' = [reqs EXCEPT ![i] =
                             Answered(reqs[i], "error500", NoDoc, 0)]
               /\ UNCHANGED <<videos, runs>>
  /\ UNCHANGED <<history, nextDocId>>
  /\ UNCHANGED <<serviceVars, chatVars, opVars>>

\* ------------------------------------------------------------------------
\* processVideoInBackground(videoDocId, url)
\* ------------------------------------------------------------------------

\* a run that goes on to the summary when extraction has thrown
ThrownExtractionIgnored(run, e) ==
  IF run.pc = "extract"
    THEN [run EXCEPT !.pc = "summary", !.calls = Append(@, "summary"),
                     !.failed = e.kind]
    ELSE [run EXCEPT !.pc = "catch", !.err = e, !.snap = NoDoc, !.data = NoData,
                     !.summary = 0, !.keyPoints = <<>>, !.tags = <<>>,
                     !.failed = e.kind]

\* the run enters its catch block with error e; its other locals are dead.
\* failed names what went wrong last, as the run logs it
Thrown(run, e) ==
  [run EXCEPT !.pc = "catch", !.err = e, !.snap = NoDoc, !.data = NoData,
              !.summary = 0, !.keyPoints = <<>>, !.tags = <<>>,
              !.failed = e.kind]

\* the run returned
Ended(run) ==
  [run EXCEPT !.pc = "done", !.snap = NoDoc, !.data = NoData, !.summary = 0,
              !.keyPoints = <<>>, !.tags = <<>>, !.hsnap = 0, !.err = NoError]

\* Video.findById(videoDocId) is answered; no document: return.  calls lists
\* the external calls the run has issued
RunFind(r) ==
  /\ runs[r].pc = "find"
  /\ LET video == FindById(runs[r].doc)
     IN runs' = [runs EXCEPT ![r] =
                   IF Exists(video)
                     THEN [runs[r] EXCEPT !.snap = video, !.pc = "extract",
                                          !.calls = <<"extract">>]
                     ELSE Ended(runs[r])]
  /\ UNCHANGED <<videos, history, reqs, nextDocId>>
  /\ UNCHANGED <<serviceVars, chatVars, opVars>>

\* step 1: youtubeService.processVideo(url) returns or throws
RunExtract(r) ==
  /\ runs[r].pc = "extract"
  /\ \E info \in InfoOutcomes, trans \in TranscriptOutcomes :
       LET res == ProcessVideo(info, trans)
       IN runs' = [runs EXCEPT ![r] =
                     IF res.ok
                       THEN [runs[r] EXCEPT !.data = res.data, !.pc = "summary",
                                            !.calls = Append(@, "summary")]
                       ELSE Thrown(runs[r], res.err)]
  /\ UNCHANGED <<videos, history, reqs, nextDocId>>
  /\ UNCHANGED <<serviceVars, chatVars, opVars>>

\* step 2: generateSummary returns or throws
RunSummary(r) ==
  /\ runs[r].pc = "summary"
  /\ \E out \in SummaryOutcomes :
       runs' = [runs EXCEPT ![r] =
                  IF out.ok
                    THEN [runs[r] EXCEPT !.summary = out.len, !.pc = "keypoints",
                                         !.calls = Append(@, "keypoints")]
                    ELSE Thrown(runs[r], SummaryError(out))]
  /\ UNCHANGED <<videos, history, reqs, nextDocId>>
  /\ UNCHANGED <<serviceVars, chatVars, opVars>>

\* step 3: extractKeyPoints returns or throws
RunKeyPoints(r) ==
  /\ runs[r].pc = "keypoints"
  /\ \E out \in KeyPointsOutcomes :
       runs' = [runs EXCEPT ![r] =
                  IF out.ok
                    THEN [runs[r] EXCEPT !.keyPoints = out.points, !.pc = "tags",
                                         !.calls = Append(@, "tags")]
                    ELSE Thrown(runs[r], KeyPointsError(out))]
  /\ UNCHANGED <<videos, history, reqs, nextDocId>>
  /\ UNCHANGED <<serviceVars, chatVars, opVars>>

\* step 4: generateTags returns, having logged a failed completion
RunTags(r) ==
  /\ runs[r].pc = "tags"
  /\ \E out \in TagsOutcomes :
       runs' = [runs EXCEPT ![r].tags = GenerateTags(out), ![r].pc = "save",
                            ![r].failed = IF out.ok THEN @ ELSE "tags"]
  /\ UNCHANGED <<videos, history, reqs, nextDocId>>
  /\ UNCHANGED <<serviceVars, chatVars, opVars>>

\* Object.assign(video, {...videoData, summary, keyPoints, tags,
\* processingStatus: 'completed'})
Completed(run) ==
  [run.snap EXCEPT !.videoId = run.c, !.title = run.data.title,
                   !.thumbnailUrl = run.data.thumbnailUrl,
                   !.channelName = run.data.channelName,
                   !.transcript = run.data.transcript, !.summary = run.summary,
                   !.keyPoints = run.keyPoints, !.tags = run.tags,
                   !.processingStatus = "completed"]

\* video.save() of the completed record resolves or rejects.  Whether an
\* array write against a document whose version has moved on is refused is
\* the driver's decision: both outcomes are explored
RunSave(r) ==
  /\ runs[r].pc = "save"
  /\ \E stale \in BOOLEAN :
       LET doc == Completed(runs[r])
           e == SaveError(runs[r].snap, doc, stale)
       IN IF e = NoError
            THEN /\ videos' = Saved(runs[r].snap, doc)
                 /\ runs' = [runs EXCEPT ![r] =
                               [Ended(runs[r]) EXCEPT !.pc = "history",
                                                      !.outcome = "completed"]]
            ELSE /\ runs' = [runs EXCEPT ![r] = Thrown(runs[r], e)]
                 /\ UNCHANGED videos
  /\ UNCHANGED <<history, reqs, nextDocId>>
  /\ UNCHANGED <<serviceVars, chatVars, opVars>>

\* updateVideoHistory(video): its findOne is answered
RunHistoryFind(r) ==
  /\ runs[r].pc = "history"
  /\ runs' = [runs EXCEPT ![r].hsnap = history[runs[r].c], ![r].pc = "touch"]
  /\ UNCHANGED <<videos, history, reqs, nextDocId>>
  /\ UNCHANGED <<serviceVars, chatVars, opVars>>

\* updateVideoHistory(video): its write is answered; the run returns
RunHistoryWrite(r) ==
  /\ runs[r].pc = "touch"
  /\ history' = HistoryUpdated(runs[r].c, runs[r].hsnap)
  /\ runs' = [runs EXCEPT ![r] = Ended(runs[r])]
  /\ UNCHANGED <<videos, reqs, nextDocId>>
  /\ UNCHANGED <<serviceVars, chatVars, opVars>>

\* catch: Video.findById(videoDocId) is answered
RunCatchFind(r) ==
  /\ runs[r].pc = "catch"
  /\ LET video == FindById(runs[r].doc)
     IN runs' = [runs EXCEPT ![r] =
                   IF Exists(video)
                     THEN [runs[r] EXCEPT !.snap = video, !.pc = "fail"]
                     ELSE Ended(runs[r])]
  /\ UNCHANGED <<videos, history, reqs, nextDocId>>
  /\ UNCHANGED <<serviceVars, chatVars, opVars>>

\* a catch block that does not record the message
FailedWithoutMessage(run) == [run.snap EXCEPT !.processingStatus = "failed"]

\* catch: video.processingStatus = 'failed'; video.processingError =
\* error.message
Failed(run) ==
  [run.snap EXCEPT !.processingStatus = "failed", !.processingError = run.err]

\* catch: video.save() resolves, or rejects and is only logged
RunCatchSave(r) ==
  /\ runs[r].pc = "fail"
  /\ LET doc == Failed(runs[r])
         e == SaveError(runs[r].snap, doc, FALSE)
     IN IF e = NoError
          THEN /\ videos' = Saved(runs[r].snap, doc)
               /\ runs' = [runs EXCEPT ![r] =
                             [Ended(runs[r]) EXCEPT !.outcome = "failed"]]
          ELSE /\ runs' = [runs EXCEPT ![r] = Ended(runs[r])]
               /\ UNCHANGED videos
  /\ UNCHANGED <<history, reqs, nextDocId>>
  /\ UNCHANGED <<serviceVars, chatVars, opVars>>

\* ------------------------------------------------------------------------
\* Specification
\* ------------------------------------------------------------------------

Next ==
  \/ \E c \in Contents : Submit(c)
  \/ \E i \in DOMAIN reqs : SubmitHistoryFind(i)
  \/ \E i \in DOMAIN reqs : SubmitHistoryWrite(i)
  \/ \E i \in DOMAIN reqs : SubmitCreate(i)
  \/ \E i \in DOMAIN reqs : SubmitUpdate(i)
  \/ \E r \in DOMAIN runs : RunFind(r)
  \/ \E r \in DOMAIN runs : RunExtract(r)
  \/ \E r \in DOMAIN runs : RunSummary(r)
  \/ \E r \in DOMAIN runs : RunKeyPoints(r)
  \/ \E r \in DOMAIN runs : RunTags(r)
  \/ \E r \in DOMAIN runs : RunSave(r)
  \/ \E r \in DOMAIN runs : RunHistoryFind(r)
  \/ \E r \in DOMAIN runs : RunHistoryWrite(r)
  \/ \E r \in DOMAIN runs : RunCatchFind(r)
  \/ \E r \in DOMAIN runs : RunCatchSave(r)

Spec == Init /\ [][Next]_vars

\* ------------------------------------------------------------------------
\* The pipeline with a third request for a record.  Two requests that found
\* the record failed have been answered; the run of the first has failed in
\* extraction and written so, the run of the second has just been started.
\* The other start is the empty collection.
\* ------------------------------------------------------------------------

MaxOverlap == 3

\* the first request's run after its catch block
FirstRunFailed(c) ==
  [Ended(Thrown([NewRun(SeedId[c], c, 1) EXCEPT !.calls = <<"extract">>],
                SeedVideo(c, "failed").processingError))
     EXCEPT !.outcome = "failed"]

OverlapInit ==
  /\ \/ /\ videos = [id \in {SeedId[c] : c \in Contents} |->
                        LET c == CHOOSE x \in Contents : SeedId[x] = id
                        IN SeedVideo(c, "failed")]
        /\ \E c \in Contents :
             LET found == SeedVideo(c, "failed")
                 req == Answered(NewRequest(c, found, SubmitBranch(found)),
                                 "started", NoDoc, found.id)
             IN /\ reqs = <<req, req>>
                /\ runs = <<FirstRunFailed(c), NewRun(found.id, c, 2)>>
     \/ /\ videos = <<>>
        /\ reqs = <<>>
        /\ runs = <<>>
  /\ history = [c \in Contents |-> 0]
  /\ nextDocId = Cardinality(Contents) + 1
  /\ call = NoCall
  /\ chats = <<>>
  /\ turns = <<>>
  /\ ops = <<>>

OverlapNext ==
  \/ \E c \in Contents : SubmitWithin(c, MaxOverlap)
  \/ \E i \in DOMAIN reqs : SubmitHistoryFind(i)
  \/ \E i \in DOMAIN reqs : SubmitHistoryWrite(i)
  \/ \E i \in DOMAIN reqs : SubmitCreate(i)
  \/ \E i \in DOMAIN reqs : SubmitUpdate(i)
  \/ \E r \in DOMAIN runs : RunFind(r)
  \/ \E r \in DOMAIN runs : RunExtract(r)
  \/ \E r \in DOMAIN runs : RunSummary(r)
  \/ \E r \in DOMAIN runs : RunKeyPoints(r)
  \/ \E r \in DOMAIN runs : RunTags(r)
  \/ \E r \in DOMAIN runs : RunSave(r)
  \/ \E r \in DOMAIN runs : RunHistoryFind(r)
  \/ \E r \in DOMAIN runs : RunHistoryWrite(r)
  \/ \E r \in DOMAIN runs : RunCatchFind(r)
  \/ \E r \in DOMAIN runs : RunCatchSave(r)

OverlapSpec == OverlapInit /\ [][OverlapNext]_vars

\* the first start of OverlapSpec, as a state of Spec
OverlapStart ==
  /\ Len(reqs) = 2
  /\ \A i \in DOMAIN reqs : reqs[i].pc = "done" /\ reqs[i].resp = "started"
  /\ \E c \in Contents :
       /\ runs = <<FirstRunFailed(c), NewRun(SeedId[c], c, 2)>>
       /\ SeedId[c] \in DOMAIN videos
       /\ videos[SeedId[c]] = SeedVideo(c, "failed")


\* ------------------------------------------------------------------------
\* POST /api/videos/analyze from the URL: the validators of the route and
\* youtubeService.extractVideoId.  A URL is the parts the two regular
\* expressions and ytdl.getVideoID look at: whether isURL() accepts it,
\* what it starts with ('http(s)://(www.)youtube.com/watch?v=',
\* 'http(s)://youtu.be/' or anything else), seg, the text that follows up
\* to the first of & ? # or a line break, and whether more text follows
\* ------------------------------------------------------------------------

\* the video ids ytdl accepts: 11 characters of [a-zA-Z0-9_-]
WellFormedIds == Contents

\* the texts found where the video id should be: nothing, three letters, a
\* well-formed id
Segments == {"", "abc"} \cup WellFormedIds

Urls ==
  {[isURL |-> TRUE, site |-> "watch", seg |-> seg, more |-> FALSE] : seg \in Segments}
    \cup {[isURL |-> TRUE, site |-> "short", seg |-> "", more |-> TRUE],
          [isURL |-> TRUE, site |-> "other", seg |-> "abc", more |-> FALSE],
          [isURL |-> FALSE, site |-> "watch", seg |-> "abc", more |-> TRUE]}

\* /^https?:\/\/(www\.)?(youtube\.com\/watch\?v=|youtu\.be\/).+/.test(value)
YoutubeRegexTest(url) ==
  /\ url.site \in {"watch", "short"}
  /\ url.seg # "" \/ url.more

\* body('url').isURL().custom(..)
UrlValid(url) == url.isURL /\ YoutubeRegexTest(url)

\* ytdl.getVideoID(url): the id, or it throws
GetVideoID(url) ==
  IF url.site \in {"watch", "short"} /\ url.seg \in WellFormedIds
    THEN [ok |-> TRUE, id |-> url.seg]
    ELSE [ok |-> FALSE, id |-> ""]

\* an extractVideoId without a default
ExtractVideoIdOrFirst(url) ==
  IF GetVideoID(url).ok THEN GetVideoID(url).id
  ELSE IF url.site \in {"watch", "short"} /\ url.seg # "" THEN url.seg
  ELSE CHOOSE c \in Contents : TRUE

\* extractVideoId: ytdl's id, else the first group of
\* /(?:youtube\.com\/watch\?v=|youtu\.be\/)([^&\n?#]+)/, else null ("")
ExtractVideoId(url) ==
  IF GetVideoID(url).ok THEN GetVideoID(url).id
  ELSE IF url.site \in {"watch", "short"} /\ url.seg # "" THEN url.seg
  ELSE ""

\* the handler's locals and the URL of its request
WithUrl(req, url) ==
  [k \in DOMAIN req \cup {"url"} |-> IF k = "url" THEN url ELSE req[k]]

\* the request arrives: 400 from the validators, 400 when no video id can
\* be extracted, else findByVideoId is answered
Analyze(url) ==
  /\ Len(reqs) < MaxSubmits
  /\ LET c == ExtractVideoId(url)
         found == FindByVideoId(c)
     IN reqs' = Append(reqs, WithUrl(
                  IF ~UrlValid(url)
                    THEN Answered(NewRequest("", NoDoc, "done"), "validation400", NoDoc, 0)
                  ELSE IF c = ""
                    THEN Answered(NewRequest("", NoDoc, "done"), "noid400", NoDoc, 0)
                  ELSE NewRequest(c, found, SubmitBranch(found)), url))
  /\ UNCHANGED <<videos, history, runs, nextDocId>>
  /\ UNCHANGED <<serviceVars, chatVars, opVars>>

AnalyzeNext ==
  \/ \E url \in Urls : Analyze(url)
  \/ \E i \in DOMAIN reqs : SubmitHistoryFind(i)
  \/ \E i \in DOMAIN reqs : SubmitHistoryWrite(i)
  \/ \E i \in DOMAIN reqs : SubmitCreate(i)
  \/ \E i \in DOMAIN reqs : SubmitUpdate(i)
  \/ \E r \in DOMAIN runs : RunFind(r)
  \/ \E r \in DOMAIN runs : RunExtract(r)
  \/ \E r \in DOMAIN runs : RunSummary(r)
  \/ \E r \in DOMAIN runs : RunKeyPoints(r)
  \/ \E r \in DOMAIN runs : RunTags(r)
  \/ \E r \in DOMAIN runs : RunSave(r)
  \/ \E r \in DOMAIN runs : RunHistoryFind(r)
  \/ \E r \in DOMAIN runs : RunHistoryWrite(r)
  \/ \E r \in DOMAIN runs : RunCatchFind(r)
  \/ \E r \in DOMAIN runs : RunCatchSave(r)

AnalyzeSpec == Init /\ [][AnalyzeNext]_vars

\* ------------------------------------------------------------------------
\* GET /api/videos/status/:videoId
\* ------------------------------------------------------------------------

\* a status response whose progress is 50 for every job that is not
\* completed
StatusResponseHalfway(video) ==
  [videoId |-> video.id, status |-> video.processingStatus,
   error |-> video.processingError,
   progress |-> IF video.processingStatus = "completed" THEN 100 ELSE 50]

\* the data of the response for the document found
StatusResponse(video) ==
  [videoId |-> video.id, status |-> video.processingStatus,
   error |-> video.processingError,
   progress |-> IF video.processingStatus = "completed" THEN 100
                ELSE IF video.processingStatus = "processing" THEN 50
                ELSE 0]

\* ------------------------------------------------------------------------
\* Text: a string whose characters matter is the sequence of its characters
\* ------------------------------------------------------------------------

\* n times the character c
Copies(c, n) == [k \in 1..n |-> c]

\* String.prototype.trim
Trim(s) ==
  LET inked == {k \in DOMAIN s : s[k] # " "}
  IN IF inked = {} THEN <<>>
     ELSE SubSeq(s, CHOOSE k \in inked : \A m \in inked : k <= m,
                    CHOOSE k \in inked : \A m \in inked : k >= m)

\* String.prototype.split on a set of separator characters
Split(s, seps) ==
  LET cuts == {k \in DOMAIN s : s[k] \in seps} \cup {0, Len(s) + 1}
      starts == cuts \ {Len(s) + 1}
      Start(n) == CHOOSE c \in starts : Cardinality({d \in starts : d < c}) = n - 1
      End(c) == CHOOSE e \in cuts : e > c /\ \A m \in cuts : m > c => e <= m
  IN [n \in 1..Cardinality(starts) |-> SubSeq(s, Start(n) + 1, End(Start(n)) - 1)]

\* Array.prototype.join
Join(parts, sep) ==
  LET RECURSIVE Joined(_)
      Joined(k) == IF k = 0 THEN <<>>
                   ELSE IF k = 1 THEN parts[1]
                   ELSE Joined(k - 1) \o sep \o parts[k]
  IN Joined(Len(parts))

\* String.prototype.includes for one of the characters cs
Includes(s, cs) == \E k \in DOMAIN s : s[k] \in cs

\* String.prototype.substring(0, n)
Substring(s, n) == SubSeq(s, 1, IF n < Len(s) THEN n ELSE Len(s))

\* ------------------------------------------------------------------------
\* getVideoInfo (services/youtubeService.js): three methods tried in turn
\* ------------------------------------------------------------------------

\* `https://img.youtube.com/vi/${videoId}/maxresdefault.jpg`
DefaultThumbnail == 27 + 11 + 18

\* 'Unknown Title', 'YouTube Video'; 'Unknown Channel'
PlaceholderTitle == 13
PlaceholderChannel == 15

\* 'All video info extraction methods failed'
AllMethodsFailed == 40

NoDetails == [title |-> 0, thumbnails |-> <<>>, author |-> 0]

\* videoDetails as ytdl resolves them: a field may be missing (0), the
\* thumbnail list may be empty
VideoDetails == [title : {0, 30}, thumbnails : {<<>>, <<48>>}, author : {0, 12}]

\* ytdl.getInfo and ytdl.getBasicInfo: reject, or resolve with videoDetails
MethodOutcomes ==
  {[ok |-> FALSE, details |-> NoDetails]}
    \cup {[ok |-> TRUE, details |-> d] : d \in VideoDetails}

\* the oEmbed request: fetch or response.json() rejects, the response is not
\* ok, or it is ok with a body whose fields may be missing (0)
OEmbedOutcomes ==
  {[kind |-> k, title |-> 0, thumbnail_url |-> 0, author_name |-> 0] :
     k \in {"throws", "status"}}
    \cup {[kind |-> "json", title |-> t, thumbnail_url |-> u, author_name |-> a] :
            t \in {0, 30}, u \in {0, 48}, a \in {0, 12}}

\* getAlternativeVideoInfo: the details built from the oEmbed body, the
\* fixed details when the response is not ok, null (ok FALSE) when the
\* request threw
GetAlternativeVideoInfo(oembed) ==
  IF oembed.kind = "throws" THEN [ok |-> FALSE, details |-> NoDetails]
  ELSE IF oembed.kind = "json"
    THEN [ok |-> TRUE,
          details |->
            [title |-> IF oembed.title = 0 THEN PlaceholderTitle ELSE oembed.title,
             thumbnails |-> <<IF oembed.thumbnail_url = 0 THEN DefaultThumbnail
                              ELSE oembed.thumbnail_url>>,
             author |-> IF oembed.author_name = 0 THEN PlaceholderChannel
                        ELSE oembed.author_name]]
  ELSE [ok |-> TRUE,
        details |-> [title |-> PlaceholderTitle, thumbnails |-> <<DefaultThumbnail>>,
                     author |-> PlaceholderChannel]]

\* getVideoInfo(url) for a valid url: the metadata, or the message it
\* throws with after 'Failed to get video information: '
GetVideoInfo(m1, m2, oembed) ==
  LET info == IF m1.ok THEN m1
              ELSE IF m2.ok THEN m2
              ELSE GetAlternativeVideoInfo(oembed)
      d == info.details
  IN IF ~info.ok
       THEN [ok |-> FALSE, msg |-> AllMethodsFailed, title |-> 0,
             thumbnailUrl |-> 0, channelName |-> 0]
       ELSE [ok |-> TRUE, msg |-> 0,
             title |-> IF d.title = 0 THEN PlaceholderTitle ELSE d.title,
             thumbnailUrl |->
               IF Len(d.thumbnails) > 0 /\ d.thumbnails[Len(d.thumbnails)] # 0
                 THEN d.thumbnails[Len(d.thumbnails)]
                 ELSE DefaultThumbnail,
             channelName |-> IF d.author = 0 THEN PlaceholderChannel ELSE d.author]

GetVideoInfoInputs ==
  [m1 : MethodOutcomes, m2 : MethodOutcomes, oembed : OEmbedOutcomes]

\* ------------------------------------------------------------------------
\* Parsing of completions (services/aiService.js).  Characters: "a", "b"
\* letters, "B" an upper-case letter, "_" , "-", "*" (also standing for the
\* bullet character), "!" any other punctuation or non-ASCII character,
\* " " white space, "," and "\n"
\* ------------------------------------------------------------------------

\* the markers of a key-point line
Markers == {"-", "*"}

\* point.length > 10
MinPointLen == 10

\* line.replace(/^[marker]\s*/, '')
StripMarker(line) ==
  IF line # <<>> /\ line[1] \in Markers
    THEN LET inked == {k \in 2..Len(line) : line[k] # " "}
         IN IF inked = {} THEN <<>>
            ELSE SubSeq(line, CHOOSE k \in inked : \A m \in inked : k <= m, Len(line))
    ELSE line

\* extractKeyPoints: the key points parsed from the completion
ParseKeyPoints(text) ==
  LET IsMarked(line) == Trim(line) # <<>> /\ Includes(line, Markers)
      marked == SelectSeq(Split(text, {"\n"}), IsMarked)
      points == [k \in DOMAIN marked |-> Trim(StripMarker(marked[k]))]
      IsLong(point) == Len(point) > MinPointLen
  IN SelectSeq(points, IsLong)

\* the characters /[^\w\s-]/g leaves in place
KeptInTag == {"a", "b", "_", " ", "-"}

\* String.prototype.toLowerCase
ToLowerCase(s) == [k \in DOMAIN s |-> IF s[k] = "B" THEN "b" ELSE s[k]]

\* tag.length <= 50 and .slice(0, 10)
TagFilterLen == 50
TagsKept == 10

\* generateTags: the tags parsed from the completion
ParseTags(text) ==
  LET parts == Split(text, {",", "\n"})
      IsKept(ch) == ch \in KeptInTag
      cleaned == [k \in DOMAIN parts |->
                    SelectSeq(ToLowerCase(Trim(parts[k])), IsKept)]
      IsTag(tag) == Len(tag) > 0 /\ Len(tag) <= TagFilterLen
      tags == SelectSeq(cleaned, IsTag)
  IN SubSeq(tags, 1, IF Len(tags) < TagsKept THEN Len(tags) ELSE TagsKept)

\* the tags as the Video schema casts them: tags is [{ type: String,
\* trim: true }], so each element is trimmed when it is set
CastTags(tags) == [k \in DOMAIN tags |-> Trim(tags[k])]

\* the character budgets of the transcript excerpt in the prompts of
\* generateSummary, extractKeyPoints, generateChatResponse, generateTags
SummaryBudget == 8000
KeyPointsBudget == 6000
ChatBudget == 4000
TagsBudget == 1500

Budgets == {SummaryBudget, KeyPointsBudget, ChatBudget, TagsBudget}

\* the excerpt of the transcript embedded in a prompt
Excerpt(transcript, budget) == Substring(transcript, budget)

\* ------------------------------------------------------------------------
\* A service call examined on its own: call holds the operation, its input
\* and, once it returned, its output
\* ------------------------------------------------------------------------

NewCall(op, input) == [op |-> op, input |-> input, out |-> <<>>, done |-> FALSE]

Returned(out) == [call EXCEPT !.out = out, !.done = TRUE]

GetVideoInfoCall ==
  /\ call.op = "getVideoInfo" /\ ~call.done
  /\ call' = Returned(GetVideoInfo(call.input.m1, call.input.m2, call.input.oembed))
  /\ UNCHANGED <<pipelineVars, chatVars, opVars>>

ExtractKeyPointsCall ==
  /\ call.op = "extractKeyPoints" /\ ~call.done
  /\ call' = Returned(ParseKeyPoints(call.input))
  /\ UNCHANGED <<pipelineVars, chatVars, opVars>>

\* generateTags, and the tags as the record holds them after Object.assign
GenerateTagsCall ==
  /\ call.op = "generateTags" /\ ~call.done
  /\ LET tags == ParseTags(call.input)
     IN call' = Returned([tags |-> tags, stored |-> CastTags(tags)])
  /\ UNCHANGED <<pipelineVars, chatVars, opVars>>

ExcerptCall ==
  /\ call.op = "excerpt" /\ ~call.done
  /\ call' = Returned(Excerpt(call.input.transcript, call.input.budget))
  /\ UNCHANGED <<pipelineVars, chatVars, opVars>>

\* an error makeRequest catches: the HTTP status of error.response (0 when
\* the error has no response), error.code and error.message
Failures ==
  [status : {0, 429, 401, 402, 500},
   code : {"", "ECONNABORTED", "ECONNRESET"},
   message : {"", "timeout of 60000ms exceeded",
              "Request failed with status code 500",
              "Rate limit exceeded. Please try again later.",
              "Request timeout. The AI service took too long to respond."}]

\* a catch block that rethrows other errors with their own message
MakeRequestErrorBare(error) ==
  IF error.status = 429 THEN "Rate limit exceeded. Please try again later."
  ELSE IF error.status = 401
    THEN "Invalid API key. Please check your OpenRouter API configuration."
  ELSE IF error.status = 402
    THEN "Insufficient credits. Please check your OpenRouter account balance."
  ELSE IF error.code = "ECONNABORTED"
    THEN "Request timeout. The AI service took too long to respond."
  ELSE error.message

\* the message of the Error the catch block of makeRequest throws
MakeRequestError(error) ==
  IF error.status = 429 THEN "Rate limit exceeded. Please try again later."
  ELSE IF error.status = 401
    THEN "Invalid API key. Please check your OpenRouter API configuration."
  ELSE IF error.status = 402
    THEN "Insufficient credits. Please check your OpenRouter account balance."
  ELSE IF error.code = "ECONNABORTED"
    THEN "Request timeout. The AI service took too long to respond."
  ELSE "AI service error: " \o error.message

MakeRequestCall ==
  /\ call.op = "makeRequest" /\ ~call.done
  /\ call' = Returned(MakeRequestError(call.input))
  /\ UNCHANGED <<pipelineVars, chatVars, opVars>>

\* the completions examined: up to MaxLines lines, all of them well-formed
\* key points but for one line taken from SampleLines
MaxLines == 9

GoodLine == <<"-", " ">> \o Copies("a", 11)

SampleLines ==
  {GoodLine,
   <<"-", " ">> \o Copies("a", 10),
   <<"*">> \o Copies("a", 11),
   <<" ", " ", "-", " ">> \o Copies("a", 11),
   Copies("a", 14),
   Copies("a", 6) \o <<"-">> \o Copies("a", 6),
   <<" ", " ">>,
   <<>>}

KeyPointTexts ==
  {Join([k \in 1..n |-> IF k = j THEN odd ELSE GoodLine], <<"\n">>) :
     n \in 0..MaxLines, j \in 0..MaxLines, odd \in SampleLines}

\* the completions examined: up to MaxTags comma- or newline-separated tags,
\* all of them "ab" but for one taken from SampleTags
MaxTags == 11

SampleTags ==
  {<<"a", "b">>,
   <<" ", "B", "a", " ">>,
   <<"a", "-", "b">>,
   <<"a", " ", "b", "!">>,
   <<"!">>,
   <<"!", " ", "!">>,
   <<>>,
   Copies("a", 50),
   Copies("a", 51)}

TagTexts ==
  {Join([k \in 1..n |-> IF k = j THEN odd ELSE <<"a", "b">>], <<sep>>) :
     n \in 0..MaxTags, j \in 0..MaxTags, odd \in SampleTags, sep \in {",", "\n"}}

\* the transcripts examined: words of w letters separated by single spaces,
\* a few characters longer than a budget
WordLens == {1, 2, 3, 7}
ExtraLens == {0, 1, 2, 5}

Words(len, w) == [k \in 1..len |-> IF k % (w + 1) = 0 THEN " " ELSE "a"]

ExcerptInputs ==
  {[transcript |-> Words(b + d, w), budget |-> b] :
     b \in Budgets, d \in ExtraLens, w \in WordLens}

ServiceInit ==
  /\ videos = <<>>
  /\ history = [c \in Contents |-> 0]
  /\ reqs = <<>>
  /\ runs = <<>>
  /\ nextDocId = 1
  /\ chats = <<>>
  /\ turns = <<>>
  /\ ops = <<>>
  /\ call \in {NewCall("getVideoInfo", x) : x \in GetVideoInfoInputs}
               \cup {NewCall("extractKeyPoints", x) : x \in KeyPointTexts}
               \cup {NewCall("generateTags", x) : x \in TagTexts}
               \cup {NewCall("excerpt", x) : x \in ExcerptInputs}
               \cup {NewCall("makeRequest", x) : x \in Failures}

ServiceNext ==
  \/ GetVideoInfoCall
  \/ ExtractKeyPointsCall
  \/ GenerateTagsCall
  \/ ExcerptCall
  \/ MakeRequestCall

ServiceSpec == ServiceInit /\ [][ServiceNext]_vars

\* ------------------------------------------------------------------------
\* Chat sessions (models/Chat.js) and POST /api/chat/message
\* ------------------------------------------------------------------------

\* number of POST /message requests in one behaviour
MaxTurns == 2

\* the session identifiers requests are about
Sessions == {"s1"}

\* lengths of the questions asked: express-validator admits 1 to 1000
\* characters
QuestionLens == {1, 1000}

\* messageSchema.content maxlength
MessageMaxLen == 5000

\* chat.messages.slice(-10)
WindowSize == 10

\* the length of the system prompt, of the two replies the prompt puts in
\* the assistant's mouth (the first quotes the title), of the fixed text
\* of the context message, of 'No key points available' and of the dots
\* that follow a cut transcript
SystemPromptLen == 881
ReadyLen == 83
UnderstoodLen == 81
ContextFrameLen == 79
NoKeyPointsLen == 23
DotsLen == 3

\* a message subdocument; id stands for its _id: the request that pushed it
\* (0: it was stored before the server started) and its place in that request
Message(role, content, t, k) ==
  [role |-> role, content |-> content, id |-> [t |-> t, k |-> k]]

NoChat == [videoId |-> "", messages |-> <<>>, isActive |-> FALSE, totalMessages |-> 0]

Loaded(chat) == chat.videoId # ""

\* a findActiveBySession that does not ask for isActive
FindActiveBySessionAnyState(sid) ==
  IF sid \in DOMAIN chats THEN chats[sid] ELSE NoChat

\* Chat.findActiveBySession: findOne({ sessionId, isActive: true })
FindActiveBySession(sid) ==
  IF sid \in DOMAIN chats /\ chats[sid].isActive THEN chats[sid] ELSE NoChat

\* content is required and at most 5000 characters
MessageError(m) ==
  IF m.content = 0 THEN [kind |-> "validation", len |-> 24 + 40]
  ELSE IF m.content > MessageMaxLen
    THEN [kind |-> "validation", len |-> 24 + 70 + m.content]
  ELSE NoError

\* addMessage on the loaded document: push, totalMessages = messages.length
Pushed(chat, m) ==
  [chat EXCEPT !.messages = Append(@, m), !.totalMessages = Len(chat.messages) + 1]

\* an addMessage that pushes onto the loaded document and saves nothing
ChatSavedNothing(sid, doc, m) == chats

\* an addMessage that writes the whole array of the loaded document
ChatSavedWhole(sid, doc, m) ==
  [chats EXCEPT ![sid].messages = doc.messages,
                ![sid].totalMessages = doc.totalMessages]

\* an addMessage whose message is stored in front of the others
ChatSavedInFront(sid, doc, m) ==
  [chats EXCEPT ![sid].messages = <<m>> \o @,
                ![sid].totalMessages = doc.totalMessages]

\* the collection after the save of addMessage resolved: the message is
\* $pushed onto the stored array, totalMessages is $set
ChatSaved(sid, doc, m) ==
  [chats EXCEPT ![sid].messages = Append(@, m),
                ![sid].totalMessages = doc.totalMessages]

\* a window that replays the whole session
RecentMessagesAll(messages) == messages

\* chat.messages.slice(-10)
RecentMessages(messages) ==
  SubSeq(messages,
         IF Len(messages) > WindowSize THEN Len(messages) - WindowSize + 1 ELSE 1,
         Len(messages))

\* recentMessages.slice(0, -1)
ExcludeCurrent(recent) == SubSeq(recent, 1, Len(recent) - 1)

\* the video fields handed to generateChatResponse
NoContext == [title |-> 0, channelName |-> 0, summary |-> 0, keyPoints |-> <<>>,
              transcript |-> 0]

VideoContext(video) ==
  [title |-> video.title, channelName |-> video.channelName,
   summary |-> video.summary, keyPoints |-> video.keyPoints,
   transcript |-> video.transcript]

\* the length of `Context: ${contextMessage}`
ContextLen(ctx) ==
  ContextFrameLen + ctx.title + ctx.channelName + ctx.summary
    + (IF Len(ctx.keyPoints) = 0 THEN NoKeyPointsLen
       ELSE SumLens(ctx.keyPoints) + 2 * Len(ctx.keyPoints) + Len(ctx.keyPoints) - 1)
    + (IF ctx.transcript > ChatBudget THEN ChatBudget + DotsLen ELSE ctx.transcript)

\* generateChatResponse: the messages sent to the completion service; part
\* tells the fixed messages, the replayed history and the question apart
BuildPrompt(question, ctx, chatHistory) ==
  <<[role |-> "system", content |-> SystemPromptLen, part |-> "fixed"],
    [role |-> "assistant", content |-> ReadyLen + ctx.title, part |-> "fixed"],
    [role |-> "user", content |-> ContextLen(ctx), part |-> "fixed"],
    [role |-> "assistant", content |-> UnderstoodLen, part |-> "fixed"]>>
    \o [k \in DOMAIN chatHistory |->
          [role |-> IF chatHistory[k].role = "user" THEN "user" ELSE "assistant",
           content |-> chatHistory[k].content, part |-> "history"]]
    \o <<[role |-> "user", content |-> question, part |-> "question"]>>

\* the content of the completion, or the message makeRequest throws with
ReplyOutcomes ==
  {[ok |-> TRUE, len |-> l] : l \in {0, 200, 5001}}
    \cup {[ok |-> FALSE, len |-> m] : m \in MakeRequestErrorLens}

\* the handler of one POST /message request: chat is the document it
\* loaded, ctx the video fields it read, prompt the messages of the
\* completion request in flight, reply the completion's content
NewTurn(sid, question) ==
  [session |-> sid, question |-> question, pc |-> "findChat", chat |-> NoChat,
   ctx |-> NoContext, prompt |-> <<>>, reply |-> 0, failed |-> "none",
   resp |-> "none"]

\* the handler sent its response
Responded(turn, resp) ==
  [turn EXCEPT !.pc = "done", !.resp = resp, !.ctx = NoContext, !.prompt = <<>>,
               !.reply = 0]

\* a handler that sends the completion request again after a failure
CaughtAndAskedAgain(turn, what) == [turn EXCEPT !.failed = what]

\* a handler that stores an assistant message after a failure
CaughtAndCarriedOn(turn, what) ==
  [turn EXCEPT !.pc = "addAssistant", !.prompt = <<>>, !.reply = 200,
               !.failed = what]

\* the handler's catch block answers 500 after what failed
Caught(turn, what) == [Responded(turn, "error500") EXCEPT !.failed = what]

\* the request arrives, its sessionId and message validated by the route
PostMessage(sid, question) ==
  /\ Len(turns) < MaxTurns
  /\ turns' = Append(turns, NewTurn(sid, question))
  /\ UNCHANGED <<chats, pipelineVars, serviceVars, opVars>>

\* Chat.findActiveBySession is answered; no active session: 404
TurnFindChat(t) ==
  /\ turns[t].pc = "findChat"
  /\ LET chat == FindActiveBySession(turns[t].session)
     IN turns' = [turns EXCEPT ![t] =
                    IF Loaded(chat)
                      THEN [turns[t] EXCEPT !.chat = chat, !.pc = "findVideo"]
                      ELSE Responded(turns[t], "notfound404")]
  /\ UNCHANGED <<chats, pipelineVars, serviceVars, opVars>>

\* a handler that asks only for the video to exist
ContextAvailableIfExists(video) == Exists(video)

\* !(!video || video.processingStatus !== 'completed')
ContextAvailable(video) ==
  Exists(video) /\ video.processingStatus = "completed"

\* Video.findByVideoId is answered; no completed video: 400
TurnFindVideo(t) ==
  /\ turns[t].pc = "findVideo"
  /\ LET video == FindByVideoId(turns[t].chat.videoId)
     IN turns' = [turns EXCEPT ![t] =
                    IF ContextAvailable(video)
                      THEN [turns[t] EXCEPT !.ctx = VideoContext(video),
                                            !.pc = "addUser"]
                      ELSE Responded(turns[t], "unavailable400")]
  /\ UNCHANGED <<chats, pipelineVars, serviceVars, opVars>>

\* chat.addMessage(message, 'user') is answered; the handler then builds
\* the prompt and sends the completion request
TurnAddUser(t) ==
  /\ turns[t].pc = "addUser"
  /\ LET m == Message("user", turns[t].question, t, 1)
         doc == Pushed(turns[t].chat, m)
     IN IF MessageError(m) = NoError
          THEN /\ chats' = ChatSaved(turns[t].session, doc, m)
               /\ turns' = [turns EXCEPT ![t] =
                    [turns[t] EXCEPT
                       !.chat = doc, !.pc = "complete",
                       !.prompt = BuildPrompt(turns[t].question, turns[t].ctx,
                                    ExcludeCurrent(RecentMessages(doc.messages)))]]
          ELSE /\ turns' = [turns EXCEPT ![t] =
                              Caught([turns[t] EXCEPT !.chat = doc], "validation")]
               /\ UNCHANGED chats
  /\ UNCHANGED <<pipelineVars, serviceVars, opVars>>

\* makeRequest returns the completion or throws
TurnComplete(t) ==
  /\ turns[t].pc = "complete"
  /\ \E out \in ReplyOutcomes :
       turns' = [turns EXCEPT ![t] =
                   IF out.ok
                     THEN [turns[t] EXCEPT !.reply = out.len, !.prompt = <<>>,
                                           !.pc = "addAssistant"]
                     ELSE Caught(turns[t], "completion")]
  /\ UNCHANGED <<chats, pipelineVars, serviceVars, opVars>>

\* chat.addMessage(aiResponse, 'assistant') is answered and the reply sent
TurnAddAssistant(t) ==
  /\ turns[t].pc = "addAssistant"
  /\ LET m == Message("assistant", turns[t].reply, t, 2)
         doc == Pushed(turns[t].chat, m)
     IN IF MessageError(m) = NoError
          THEN /\ chats' = ChatSaved(turns[t].session, doc, m)
               /\ turns' = [turns EXCEPT ![t] =
                              Responded([turns[t] EXCEPT !.chat = doc], "ok")]
          ELSE /\ turns' = [turns EXCEPT ![t] =
                              Caught([turns[t] EXCEPT !.chat = doc], "validation")]
               /\ UNCHANGED chats
  /\ UNCHANGED <<pipelineVars, serviceVars, opVars>>

\* The sessions outlive the server process: when the server starts the
\* collection holds no session or one, open or closed, with the messages of
\* earlier requests, beside the video collection
StoredLens == {0, 1, 10, 12}

SeedMessages(n) ==
  [k \in 1..n |-> Message(IF k % 2 = 1 THEN "user" ELSE "assistant", 10 + k, 0, k)]

SeedChat(c, n, active) ==
  [videoId |-> c, messages |-> SeedMessages(n), isActive |-> active,
   totalMessages |-> n]

ChatInit ==
  /\ \E st \in [Contents -> SeedStatuses] :
       /\ videos = [id \in {SeedId[c] : c \in {x \in Contents : st[x] # "absent"}} |->
                      LET c == CHOOSE x \in Contents : SeedId[x] = id
                      IN SeedVideo(c, st[c])]
       /\ history = [c \in Contents |-> IF st[c] = "completed" THEN 1 ELSE 0]
  /\ reqs = <<>>
  /\ runs = <<>>
  /\ nextDocId = Cardinality(Contents) + 1
  /\ call = NoCall
  /\ turns = <<>>
  /\ ops = <<>>
  /\ \E stored \in SUBSET Sessions :
       chats \in [stored -> {SeedChat(c, n, active) :
                               c \in Contents, n \in StoredLens, active \in BOOLEAN}]

ChatNext ==
  \/ \E sid \in Sessions, question \in QuestionLens : PostMessage(sid, question)
  \/ \E t \in DOMAIN turns : TurnFindChat(t)
  \/ \E t \in DOMAIN turns : TurnFindVideo(t)
  \/ \E t \in DOMAIN turns : TurnAddUser(t)
  \/ \E t \in DOMAIN turns : TurnComplete(t)
  \/ \E t \in DOMAIN turns : TurnAddAssistant(t)

ChatSpec == ChatInit /\ [][ChatNext]_vars

\* ------------------------------------------------------------------------
\* POST /api/chat/start, PUT /api/chat/session/:sessionId/close and
\* GET /api/chat/session/:sessionId
\* ------------------------------------------------------------------------

\* number of requests to these routes in one behaviour
MaxOps == 2

\* the values uuidv4() returns, in the order it returns them
Uuids == <<"s1", "s2", "s3", "s4", "s5">>

\* the videoId of a POST /start body: 24 characters (an _id), 11 characters
\* (a YouTube video id) or anything else, the empty string included
NoInput == [form |-> "other", id |-> 0, c |-> ""]

StartInputs ==
  {[form |-> "objectId", id |-> i, c |-> ""] : i \in {1, 9}}
    \cup {[form |-> "youtubeId", id |-> 0, c |-> c] : c \in Contents \cup {"vidZ"}}
    \cup {NoInput}

\* videoId.length === 24 ? Video.findById : Video.findByVideoId
Lookup(input) ==
  IF input.form = "objectId" THEN FindById(input.id) ELSE FindByVideoId(input.c)

\* a validator that only asks for the record to exist
StartValidAnyStatus(input, video) ==
  /\ input.form # "other"
  /\ Exists(video)

\* the custom validator of POST /start accepts the videoId
StartValid(input, video) ==
  /\ input.form # "other"
  /\ Exists(video)
  /\ video.processingStatus = "completed"

\* a request to one of the three routes: found is the status the validator's
\* query saw, chat the session document the handler loaded, videoId the
\* videoId of the record the handler found, created the sessionId of the
\* session it created, body the messages it returned
NewOp(kind, sid, input) ==
  [kind |-> kind, sid |-> sid, input |-> input, pc |-> "arrived",
   found |-> "none", chat |-> NoChat, videoId |-> "", resp |-> "none",
   created |-> "", body |-> <<>>]

\* the handler sent its response; its locals are dead
OpResponded(op, resp) ==
  [op EXCEPT !.pc = "done", !.resp = resp, !.chat = NoChat, !.videoId = ""]

\* new Chat({ videoId, sessionId, messages: [], isActive: true })
NewChat(c) == [videoId |-> c, messages |-> <<>>, isActive |-> TRUE, totalMessages |-> 0]

\* the collection after chat.save() inserted the session
ChatInserted(sid, doc) ==
  [s \in DOMAIN chats \cup {sid} |-> IF s = sid THEN doc ELSE chats[s]]

\* POST /start arrives and the query of its validator is answered: 400
\* unless the record is there and completed
StartSession(input) ==
  /\ Len(ops) < MaxOps
  /\ LET video == IF input.form = "other" THEN NoDoc ELSE Lookup(input)
         op == [NewOp("start", "", input) EXCEPT !.found = video.processingStatus]
     IN ops' = Append(ops, IF StartValid(input, video)
                             THEN [op EXCEPT !.pc = "find"]
                             ELSE OpResponded(op, "validation400"))
  /\ UNCHANGED <<pipelineVars, serviceVars, chatVars>>

\* POST /start: the handler's own query is answered; no record: 404
StartFind(o) ==
  /\ ops[o].kind = "start" /\ ops[o].pc = "find"
  /\ LET video == Lookup(ops[o].input)
     IN ops' = [ops EXCEPT ![o] =
                  IF Exists(video)
                    THEN [ops[o] EXCEPT !.videoId = video.videoId, !.pc = "create"]
                    ELSE OpResponded(ops[o], "notfound404")]
  /\ UNCHANGED <<pipelineVars, serviceVars, chatVars>>

\* POST /start: chat.save() of the new session resolves and the sessionId
\* is returned
StartCreate(o) ==
  /\ ops[o].kind = "start" /\ ops[o].pc = "create"
  /\ Cardinality(DOMAIN chats) < Len(Uuids)
  /\ LET sid == Uuids[Cardinality(DOMAIN chats) + 1]
     IN /\ chats' = ChatInserted(sid, NewChat(ops[o].videoId))
        /\ ops' = [ops EXCEPT ![o] =
                     [OpResponded(ops[o], "ok") EXCEPT !.created = sid]]
  /\ UNCHANGED <<turns, pipelineVars, serviceVars>>

\* Chat.findOne({ sessionId })
FindSession(sid) == IF sid \in DOMAIN chats THEN chats[sid] ELSE NoChat

\* PUT /close arrives and its findOne is answered; no session: 404
CloseSession(sid) ==
  /\ Len(ops) < MaxOps
  /\ LET chat == FindSession(sid)
         op == NewOp("close", sid, NoInput)
     IN ops' = Append(ops, IF Loaded(chat)
                             THEN [op EXCEPT !.chat = chat, !.pc = "save"]
                             ELSE OpResponded(op, "notfound404"))
  /\ UNCHANGED <<pipelineVars, serviceVars, chatVars>>

\* PUT /close: chat.isActive = false; chat.save() resolves.  The save $sets
\* isActive when the assignment changed it
CloseSave(o) ==
  /\ ops[o].kind = "close" /\ ops[o].pc = "save"
  /\ chats' = IF ops[o].chat.isActive /\ ops[o].sid \in DOMAIN chats
                THEN [chats EXCEPT ![ops[o].sid].isActive = FALSE]
                ELSE chats
  /\ ops' = [ops EXCEPT ![o] = OpResponded(ops[o], "ok")]
  /\ UNCHANGED <<turns, pipelineVars, serviceVars>>

\* GET /session arrives and its findActiveBySession is answered; no active
\* session: 404
GetSession(sid) ==
  /\ Len(ops) < MaxOps
  /\ LET chat == FindActiveBySession(sid)
         op == NewOp("get", sid, NoInput)
     IN ops' = Append(ops, IF Loaded(chat)
                             THEN [op EXCEPT !.chat = chat, !.pc = "video"]
                             ELSE OpResponded(op, "notfound404"))
  /\ UNCHANGED <<pipelineVars, serviceVars, chatVars>>

\* GET /session: Video.findByVideoId(..).select(..) is answered and the
\* messages of the loaded session are returned
GetFindVideo(o) ==
  /\ ops[o].kind = "get" /\ ops[o].pc = "video"
  /\ ops' = [ops EXCEPT ![o] =
               [OpResponded(ops[o], "ok") EXCEPT !.body = ops[o].chat.messages]]
  /\ UNCHANGED <<pipelineVars, serviceVars, chatVars>>

\* The sessions of a server: the collection of videos as the server finds
\* it, no session or one stored session, and the requests to the chat routes
SessionStoredLens == {2}

\* the length of the questions asked
SessionQuestionLens == {25}

SessionInit ==
  /\ \E st \in [Contents -> SeedStatuses] :
       /\ videos = [id \in {SeedId[c] : c \in {x \in Contents : st[x] # "absent"}} |->
                      LET c == CHOOSE x \in Contents : SeedId[x] = id
                      IN SeedVideo(c, st[c])]
       /\ history = [c \in Contents |-> IF st[c] = "completed" THEN 1 ELSE 0]
  /\ reqs = <<>>
  /\ runs = <<>>
  /\ nextDocId = Cardinality(Contents) + 1
  /\ call = NoCall
  /\ turns = <<>>
  /\ ops = <<>>
  /\ \E stored \in SUBSET Sessions :
       chats \in [stored -> {SeedChat(c, n, active) :
                               c \in Contents, n \in SessionStoredLens,
                               active \in BOOLEAN}]

SessionNext ==
  \/ \E input \in StartInputs : StartSession(input)
  \/ \E o \in DOMAIN ops : StartFind(o)
  \/ \E o \in DOMAIN ops : StartCreate(o)
  \/ \E sid \in Sessions : CloseSession(sid)
  \/ \E o \in DOMAIN ops : CloseSave(o)
  \/ \E sid \in Sessions : GetSession(sid)
  \/ \E o \in DOMAIN ops : GetFindVideo(o)
  \/ \E sid \in Sessions, question \in SessionQuestionLens : PostMessage(sid, question)
  \/ \E t \in DOMAIN turns : TurnFindChat(t)
  \/ \E t \in DOMAIN turns : TurnFindVideo(t)
  \/ \E t \in DOMAIN turns : TurnAddUser(t)
  \/ \E t \in DOMAIN turns : TurnComplete(t)
  \/ \E t \in DOMAIN turns : TurnAddAssistant(t)

SessionSpec == SessionInit /\ [][SessionNext]_vars

\* ------------------------------------------------------------------------
\* Properties
\* ------------------------------------------------------------------------

RunsOf(c) == {r \in DOMAIN runs : runs[r].c = c}

InFlight(c) == {r \in RunsOf(c) : runs[r].pc # "done"}

\* the runs that called youtubeService.processVideo
Extractions(c) == {r \in RunsOf(c) : Len(runs[r].calls) > 0}

\* the request found a completed record
CacheHit(req) == req.found = "completed"

\* the request found no record
FoundNone(req) == req.found = "none"

\* C1: at most one background run per contentId is in flight at any time
C1_AtMostOneRunInFlight ==
  \A c \in Contents : Cardinality(InFlight(c)) <= 1

\* C2: once two submits that both found no record for a contentId have been
\* answered and the runs have ended, extraction was invoked exactly once
C2_RacingNewSubmitsExtractOnce ==
  \A i, j \in DOMAIN reqs :
    (/\ i # j
     /\ reqs[i].c = reqs[j].c
     /\ FoundNone(reqs[i]) /\ FoundNone(reqs[j])
     /\ reqs[i].pc = "done" /\ reqs[j].pc = "done"
     /\ InFlight(reqs[i].c) = {})
    => Cardinality(Extractions(reqs[i].c)) = 1

\* C3: a submit that finds its record completed reads the stored record,
\* answers with it, starts no run (so no extraction and no summarization)
\* and changes no job record in any of its steps
C3_CompletedSubmitOnlyReads ==
  [][\A i \in DOMAIN reqs' :
       (CacheHit(reqs'[i]) /\ (i \notin DOMAIN reqs \/ reqs'[i] # reqs[i]))
       => /\ videos' = videos
          /\ runs' = runs
          /\ \A r \in DOMAIN runs' : runs'[r].by # i
          /\ i \notin DOMAIN reqs
               => /\ reqs'[i].snap = FindByVideoId(reqs'[i].c)
                  /\ reqs'[i].snap.processingStatus = "completed"
          /\ reqs'[i].pc = "done"
               => reqs'[i].resp = "cached" /\ reqs'[i].body = reqs[i].snap]_vars

C3_TwoCachedAnswers ==
  \E i, j \in DOMAIN reqs :
    i # j /\ reqs[i].resp = "cached" /\ reqs[j].resp = "cached"

\* C4: the only submit for a contentId, having found no record, is answered
\* with status processing, the record exists and its run was started
C4_NewSubmitAnsweredProcessing ==
  \A i \in DOMAIN reqs :
    (/\ reqs[i].pc = "done"
     /\ FoundNone(reqs[i])
     /\ \A j \in DOMAIN reqs : j # i => reqs[j].c # reqs[i].c)
    => /\ reqs[i].resp = "started"
       /\ Exists(FindByVideoId(reqs[i].c))
       /\ \E r \in DOMAIN runs : runs[r].by = i

\* C5: a run that has ended, and whose record still exists, made its terminal
\* transition to completed or to failed
C5_EndedRunMadeTerminalTransition ==
  \A r \in DOMAIN runs :
    (runs[r].pc = "done" /\ runs[r].doc \in DOMAIN videos)
    => runs[r].outcome \in {"completed", "failed"}

\* C6: a status changes only along pending -> processing -> completed or
\* failed, or from failed back to pending or processing
C6_StatusMovesForward ==
  [][\A id \in DOMAIN videos \cap DOMAIN videos' :
       videos'[id].processingStatus # videos[id].processingStatus
       => <<videos[id].processingStatus, videos'[id].processingStatus>> \in
            {<<"pending", "processing">>, <<"processing", "completed">>,
             <<"processing", "failed">>, <<"failed", "pending">>,
             <<"failed", "processing">>}]_vars

\* C7: a completed job has a non-empty summary and a non-empty transcript
C7_CompletedHasSummaryAndTranscript ==
  \A id \in DOMAIN videos :
    videos[id].processingStatus = "completed"
    => videos[id].summary > 0 /\ videos[id].transcript > 0

C7_RunCompletedJob ==
  \E r \in DOMAIN runs :
    /\ runs[r].outcome = "completed"
    /\ runs[r].doc \in DOMAIN videos
    /\ videos[runs[r].doc].processingStatus = "completed"
    /\ videos[runs[r].doc].summary = 300

\* C8: a failed job has a non-empty error message
C8_FailedHasError ==
  \A id \in DOMAIN videos :
    videos[id].processingStatus = "failed" => videos[id].processingError.len > 0

C8_RunFailedJob ==
  \E r \in DOMAIN runs :
    /\ runs[r].outcome = "failed"
    /\ runs[r].doc \in DOMAIN videos
    /\ videos[runs[r].doc].processingStatus = "failed"
    /\ videos[runs[r].doc].processingError.kind = "summary"

\* C9: a job that is not failed carries no error, in its record and in the
\* status response
C9_ErrorOnlyWhileFailed ==
  \A id \in DOMAIN videos :
    videos[id].processingStatus # "failed"
    => /\ videos[id].processingError = NoError
       /\ StatusResponse(videos[id]).error = NoError

\* C10: at most one job record per contentId
C10_OneJobPerContent ==
  \A a, b \in DOMAIN videos : videos[a].videoId = videos[b].videoId => a = b

C10_TwoSubmitsRacedToCreate ==
  \E i, j \in DOMAIN reqs :
    /\ i # j
    /\ reqs[i].c = reqs[j].c
    /\ FoundNone(reqs[i]) /\ FoundNone(reqs[j])
    /\ reqs[i].pc = "done" /\ reqs[j].pc = "done"

\* C11: a submit that finds its record failed goes on to reuse that record:
\* its save creates no record, leaves the record processing, starts a run on
\* that record and the submit is answered with status processing
C11_FailedSubmitRestarts ==
  [][\A i \in DOMAIN reqs' :
       /\ (i \notin DOMAIN reqs /\ reqs'[i].found = "failed")
            => reqs'[i].pc = "update"
       /\ (/\ i \in DOMAIN reqs
           /\ reqs[i].found = "failed"
           /\ reqs[i].pc # "done" /\ reqs'[i].pc = "done"
           /\ reqs[i].snap.id \in DOMAIN videos)
            => /\ DOMAIN videos' = DOMAIN videos
               /\ videos'[reqs[i].snap.id].processingStatus = "processing"
               /\ Len(runs') = Len(runs) + 1
               /\ runs'[Len(runs')].doc = reqs[i].snap.id
               /\ runs'[Len(runs')].by = i
               /\ runs'[Len(runs')].pc = "find"
               /\ reqs'[i].resp = "started"
               /\ reqs'[i].jobId = reqs[i].snap.id]_vars

C11_FailedJobResubmitted ==
  \E i \in DOMAIN reqs :
    /\ reqs[i].found = "failed"
    /\ reqs[i].resp = "started"
    /\ \E r \in DOMAIN runs : runs[r].by = i /\ runs[r].doc = reqs[i].jobId

\* the run's outputs are inside the schema's limits and the stored record
\* is as the run loaded it
SaveUnhindered(run) ==
  /\ run.summary \in 1..SummaryMaxLen
  /\ ~TooLong(run.keyPoints, KeyPointMaxLen)
  /\ run.doc \in DOMAIN videos
  /\ videos[run.doc] = run.snap

\* the run holds the transcript processVideo synthesizes when getTranscript
\* failed in every language
FellBack(run) ==
  run.data.transcript = FallbackTranscript(run.data.title, run.data.channelName)

\* the save of the run leaves the run's record completed, with the fallback
\* transcript, and the steps that follow leave it so
EndsCompletedWithFallback(r) ==
  /\ runs'[r].outcome = "completed"
  /\ videos'[runs[r].doc].processingStatus = "completed"
  /\ videos'[runs[r].doc].transcript =
       FallbackTranscript(runs[r].data.title, runs[r].data.channelName)

OutputPaths ==
  {"title", "thumbnailUrl", "channelName", "transcript", "summary", "keyPoints",
   "tags"}

\* C14: a run whose summary call or key-points call failed writes nothing
\* in the failing step, and from then on its only write is the one that
\* leaves the record failed, with the output paths as they were; the run
\* ends having failed the job, not completed it
C14_SummarizationFailureFails ==
  [][\A r \in DOMAIN runs :
       /\ (runs[r].pc \in {"summary", "keypoints"} /\ runs'[r].pc = "catch")
            => /\ videos' = videos
               /\ runs'[r].failed \in {"summary", "keypoints"}
       /\ (/\ runs[r].failed \in {"summary", "keypoints"}
           /\ runs'[r] # runs[r]
           /\ runs[r].doc \in DOMAIN videos)
            => /\ runs'[r].failed = runs[r].failed
               /\ runs'[r].outcome # "completed"
               /\ \A p \in OutputPaths :
                    videos'[runs[r].doc][p] = videos[runs[r].doc][p]
               /\ runs'[r].pc = "done"
                    => /\ runs'[r].outcome = "failed"
                       /\ videos'[runs[r].doc].processingStatus = "failed"]_vars

\* C15: when the first two methods fail, whatever the oEmbed request does,
\* getVideoInfo returns metadata with a title, a channel and a thumbnail URL
C15_GetVideoInfoAlwaysReturns ==
  (/\ call.op = "getVideoInfo" /\ call.done
   /\ ~call.input.m1.ok /\ ~call.input.m2.ok)
  => /\ call.out.ok
     /\ call.out.title > 0
     /\ call.out.channelName > 0
     /\ call.out.thumbnailUrl > 0

\* C16: extractKeyPoints returns at most 8 key points
C16_AtMostEightKeyPoints ==
  (call.op = "extractKeyPoints" /\ call.done) => Len(call.out) <= 8

\* C17: generateTags returns at most 10 tags, none of them empty, and none
\* of them is empty on the record they are assigned to
C17_AtMostTenTagsNoneEmpty ==
  (call.op = "generateTags" /\ call.done)
  => /\ Len(call.out.tags) <= 10
     /\ \A k \in DOMAIN call.out.tags : Len(call.out.tags[k]) > 0
     /\ \A k \in DOMAIN call.out.stored : Len(call.out.stored[k]) > 0

\* C18: the excerpt of a transcript longer than the budget has at most
\* budget characters and does not end inside a word of the transcript
C18_ExcerptEndsAtWordBoundary ==
  (/\ call.op = "excerpt" /\ call.done
   /\ Len(call.input.transcript) > call.input.budget)
  => /\ Len(call.out) <= call.input.budget
     /\ \/ call.out = <<>>
        \/ call.out[Len(call.out)] = " "
        \/ call.input.transcript[Len(call.out) + 1] = " "

\* the messages of part p in a prompt
PartOf(prompt, p) == {k \in DOMAIN prompt : prompt[k].part = p}

\* C19: the prompt of a completion request in flight holds the four fixed
\* messages, at most 10 messages of the session's history and, last, the
\* question, however long the session is
C19_PromptHoldsAtMostTenPriorMessages ==
  \A t \in DOMAIN turns :
    turns[t].pc = "complete"
    => LET prompt == turns[t].prompt
       IN /\ Cardinality(PartOf(prompt, "history")) <= 10
          /\ PartOf(prompt, "fixed") = 1..4
          /\ PartOf(prompt, "question") = {Len(prompt)}
          /\ Len(prompt) <= 4 + 10 + 1

C19_LongSessionPrompted ==
  \E t \in DOMAIN turns :
    /\ turns[t].pc = "complete"
    /\ Len(turns[t].chat.messages) > 12
    /\ Cardinality(PartOf(turns[t].prompt, "history")) = 9

\* the user message and the assistant message of request t
UserMessage(t) == Message("user", turns[t].question, t, 1)

PushedBy(t, role) ==
  {k \in DOMAIN chats[turns[t].session].messages :
     /\ chats[turns[t].session].messages[k].id.t = t
     /\ chats[turns[t].session].messages[k].role = role}

\* the session of a request whose completion failed holds the question of
\* the request once and no assistant message of it; when no other request
\* has written to the session since the request loaded it, the stored
\* messages are those the request loaded followed by the question
QuestionKept(t) ==
  LET stored == chats[turns[t].session].messages
  IN /\ Cardinality(PushedBy(t, "user")) = 1
     /\ PushedBy(t, "assistant") = {}
     /\ \E k \in DOMAIN stored : stored[k] = UserMessage(t)
     /\ (\A k \in DOMAIN stored : stored[k].id.t \in {0, t})
          => /\ stored = turns[t].chat.messages
             /\ stored[Len(stored)] = UserMessage(t)
             /\ \A k \in 1..(Len(stored) - 1) : stored[k].id.t = 0

\* C20: a request stores its question before the completion request; when
\* the completion fails the request appends nothing more, is answered with
\* an error, and its session holds the previous messages followed by the
\* question and no assistant message of the request
C20_FailedCompletionKeepsQuestion ==
  [][\A t \in DOMAIN turns :
       /\ (turns[t].pc = "addUser" /\ turns'[t].pc = "complete")
            => chats'[turns[t].session].messages =
                 Append(chats[turns[t].session].messages, UserMessage(t))
       /\ (turns[t].pc = "complete" /\ turns'[t].failed = "completion")
            => /\ chats' = chats
               /\ turns'[t].pc = "done"
               /\ turns'[t].resp = "error500"
               /\ QuestionKept(t)'
       /\ turns[t].failed = "completion"
            => turns'[t] = turns[t] /\ QuestionKept(t)']_vars

C20_CompletionFailedAfterQuestion ==
  \E t \in DOMAIN turns :
    /\ turns[t].failed = "completion"
    /\ turns[t].resp = "error500"
    /\ Len(chats[turns[t].session].messages) > 1
    /\ QuestionKept(t)

\* ------------------------------------------------------------------------
\* DELETE /api/videos/:videoId (routes/videoRoutes.js) beside the chat
\* routes: the stored sessions are those of completed videos
\* ------------------------------------------------------------------------

\* the _id values of DELETE requests that pass isMongoId
DeleteIds == {1, 9}

\* the request arrives and Video.findById is answered; no record: 404
DeleteVideo(id) ==
  /\ Len(ops) < MaxOps
  /\ LET video == FindById(id)
         op == NewOp("deleteVideo", "", [form |-> "objectId", id |-> id, c |-> ""])
     IN ops' = Append(ops, IF Exists(video)
                             THEN [op EXCEPT !.videoId = video.videoId,
                                             !.found = video.processingStatus,
                                             !.pc = "delete"]
                             ELSE OpResponded(op, "notfound404"))
  /\ UNCHANGED <<pipelineVars, serviceVars, chatVars>>

\* Video.findByIdAndDelete(videoId) is answered
DeleteVideoRemove(o) ==
  /\ ops[o].kind = "deleteVideo" /\ ops[o].pc = "delete"
  /\ videos' = [i \in DOMAIN videos \ {ops[o].input.id} |-> videos[i]]
  /\ ops' = [ops EXCEPT ![o].pc = "history"]
  /\ UNCHANGED <<history, reqs, runs, nextDocId, serviceVars, chatVars>>

\* History.findOneAndDelete({ videoId: video.videoId }) is answered and the
\* response sent
DeleteVideoHistory(o) ==
  /\ ops[o].kind = "deleteVideo" /\ ops[o].pc = "history"
  /\ history' = [history EXCEPT ![ops[o].videoId] = 0]
  /\ ops' = [ops EXCEPT ![o] = OpResponded(ops[o], "ok")]
  /\ UNCHANGED <<videos, reqs, runs, nextDocId, serviceVars, chatVars>>

\* a server whose stored session, if any, was started on a completed video
RemovalInit ==
  /\ \E st \in [Contents -> SeedStatuses] :
       /\ videos = [id \in {SeedId[c] : c \in {x \in Contents : st[x] # "absent"}} |->
                      LET c == CHOOSE x \in Contents : SeedId[x] = id
                      IN SeedVideo(c, st[c])]
       /\ history = [c \in Contents |-> IF st[c] = "completed" THEN 1 ELSE 0]
       /\ \E stored \in SUBSET Sessions :
            chats \in [stored -> {SeedChat(c, n, active) :
                                    c \in {x \in Contents : st[x] = "completed"},
                                    n \in SessionStoredLens, active \in BOOLEAN}]
  /\ reqs = <<>>
  /\ runs = <<>>
  /\ nextDocId = Cardinality(Contents) + 1
  /\ call = NoCall
  /\ turns = <<>>
  /\ ops = <<>>

RemovalNext ==
  \/ \E input \in StartInputs : StartSession(input)
  \/ \E o \in DOMAIN ops : StartFind(o)
  \/ \E o \in DOMAIN ops : StartCreate(o)
  \/ \E id \in DeleteIds : DeleteVideo(id)
  \/ \E o \in DOMAIN ops : DeleteVideoRemove(o)
  \/ \E o \in DOMAIN ops : DeleteVideoHistory(o)
  \/ \E sid \in Sessions, question \in SessionQuestionLens : PostMessage(sid, question)
  \/ \E t \in DOMAIN turns : TurnFindChat(t)
  \/ \E t \in DOMAIN turns : TurnFindVideo(t)
  \/ \E t \in DOMAIN turns : TurnAddUser(t)
  \/ \E t \in DOMAIN turns : TurnComplete(t)
  \/ \E t \in DOMAIN turns : TurnAddAssistant(t)

RemovalSpec == RemovalInit /\ [][RemovalNext]_vars

\* ------------------------------------------------------------------------
\* The pipeline continued from a state three overlapping requests for a
\* failed record lead to: two requests were answered, the run of the first
\* is about to save its results, the run of the second has not yet loaded
\* the record, the third request has loaded the record as failed and not
\* yet written it
\* ------------------------------------------------------------------------

FirstRunAtSave(c) ==
  LET found == SeedVideo(c, "failed")
  IN [NewRun(found.id, c, 1) EXCEPT
        !.snap = [found EXCEPT !.processingStatus = "processing"],
        !.data = [title |-> 30, thumbnailUrl |-> 48, channelName |-> 12,
                  transcript |-> 170],
        !.summary = 300, !.keyPoints = <<40>>, !.tags = <<>>,
        !.pc = "save", !.calls = <<"extract", "summary", "keypoints", "tags">>,
        !.failed = "tags"]

StaleStart ==
  /\ \E c \in Contents :
       LET found == SeedVideo(c, "failed")
           req == NewRequest(c, found, SubmitBranch(found))
           answered == Answered(req, "started", NoDoc, found.id)
       IN /\ videos = [id \in {found.id} |->
                         [found EXCEPT !.processingStatus = "processing"]]
          /\ reqs = <<answered, answered, req>>
          /\ runs = <<FirstRunAtSave(c), NewRun(found.id, c, 2)>>
  /\ history = [c \in Contents |-> 0]
  /\ nextDocId = Cardinality(Contents) + 1
  /\ call = NoCall
  /\ chats = <<>>
  /\ turns = <<>>
  /\ ops = <<>>

StaleInit == StaleStart \/ OverlapInit

StaleSpec == StaleInit /\ [][OverlapNext]_vars

\* ------------------------------------------------------------------------
\* GET /api/videos/status/:videoId (routes/videoRoutes.js) beside the
\* pipeline, and the client that polls it (handleAnalyze, pollVideoStatus)
\* ------------------------------------------------------------------------

MaxPolls == 1

\* the :videoId of a status request: an _id or a YouTube video id
StatusInputs ==
  {[form |-> "objectId", id |-> i, c |-> ""] : i \in {1, 9}}
    \cup {[form |-> "youtubeId", id |-> 0, c |-> c] : c \in Contents}

\* response.data.videoId as the client reads it: the _id of the processing
\* response, the videoId field of the stored record of the cache-hit
\* response
ReturnedId(req) ==
  IF req.resp = "started" THEN [form |-> "objectId", id |-> req.jobId, c |-> ""]
  ELSE IF req.resp = "cached"
    THEN [form |-> "youtubeId", id |-> 0, c |-> req.body.videoId]
  ELSE NoInput

\* param('videoId').isMongoId()
IsMongoId(input) == input.form = "objectId"

\* the request arrives and Video.findById is answered: 400 for an id that
\* is no _id, 404 when no record is found, else the status data
GetStatus(input) ==
  /\ Len(ops) < MaxPolls
  /\ LET op == NewOp("status", "", input)
         video == FindById(input.id)
     IN ops' = Append(ops,
                 IF ~IsMongoId(input) THEN OpResponded(op, "validation400")
                 ELSE IF ~Exists(video) THEN OpResponded(op, "notfound404")
                 ELSE [OpResponded(op, "ok") EXCEPT
                         !.found = video.processingStatus,
                         !.body = StatusResponse(video)])
  /\ UNCHANGED <<pipelineVars, serviceVars, chatVars>>

\* the client polls with the identifier the answer to its request gave it
PollStatus(i) ==
  /\ reqs[i].resp \in {"started", "cached"}
  /\ GetStatus(ReturnedId(reqs[i]))

PollNext ==
  \/ Next
  \/ \E input \in StatusInputs : GetStatus(input)
  \/ \E i \in DOMAIN reqs : PollStatus(i)

PollSpec == Init /\ [][PollNext]_vars

\* ------------------------------------------------------------------------
\* The pipeline and the message handler beside each other: a server is
\* given analysis requests or questions
\* ------------------------------------------------------------------------

RetryNext ==
  \/ \E c \in Contents : turns = <<>> /\ Submit(c)
  \/ \E i \in DOMAIN reqs : SubmitHistoryFind(i)
  \/ \E i \in DOMAIN reqs : SubmitHistoryWrite(i)
  \/ \E i \in DOMAIN reqs : SubmitCreate(i)
  \/ \E i \in DOMAIN reqs : SubmitUpdate(i)
  \/ \E r \in DOMAIN runs : RunFind(r)
  \/ \E r \in DOMAIN runs : RunExtract(r)
  \/ \E r \in DOMAIN runs : RunSummary(r)
  \/ \E r \in DOMAIN runs : RunKeyPoints(r)
  \/ \E r \in DOMAIN runs : RunTags(r)
  \/ \E r \in DOMAIN runs : RunSave(r)
  \/ \E r \in DOMAIN runs : RunHistoryFind(r)
  \/ \E r \in DOMAIN runs : RunHistoryWrite(r)
  \/ \E r \in DOMAIN runs : RunCatchFind(r)
  \/ \E r \in DOMAIN runs : RunCatchSave(r)
  \/ \E sid \in Sessions, question \in SessionQuestionLens :
       reqs = <<>> /\ PostMessage(sid, question)
  \/ \E t \in DOMAIN turns : TurnFindChat(t)
  \/ \E t \in DOMAIN turns : TurnFindVideo(t)
  \/ \E t \in DOMAIN turns : TurnAddUser(t)
  \/ \E t \in DOMAIN turns : TurnComplete(t)
  \/ \E t \in DOMAIN turns : TurnAddAssistant(t)

RetrySpec == RemovalInit /\ [][RetryNext]_vars

\* the request that arrives in this step, 0 when none does
Arriving == IF Len(ops') = Len(ops) + 1 THEN Len(ops') ELSE 0

\* C21: a start request whose validator did not find a completed record is
\* answered 400 at once and never creates a session; a session enters the
\* collection only in the create step of a start request whose validator
\* found the record completed, and it is the session that request returns
C21_StartNeedsCompletedJob ==
  [][/\ \A o \in DOMAIN ops :
          ops[o].pc = "done" => ops'[o] = ops[o]
     /\ (Arriving # 0 /\ ops'[Arriving].kind = "start"
           /\ ops'[Arriving].found # "completed")
          => /\ ops'[Arriving].pc = "done"
             /\ ops'[Arriving].resp = "validation400"
             /\ ops'[Arriving].created = ""
             /\ chats' = chats
     /\ DOMAIN chats' # DOMAIN chats
          => \E o \in DOMAIN ops :
               /\ ops[o].kind = "start" /\ ops[o].pc = "create"
               /\ ops[o].found = "completed"
               /\ ops'[o].resp = "ok"
               /\ DOMAIN chats' = DOMAIN chats \cup {ops'[o].created}
               /\ chats'[ops'[o].created] = NewChat(ops[o].videoId)
               /\ \A s \in DOMAIN chats : chats'[s] = chats[s]]_vars

C21_SessionStartedAndRefused ==
  \E o1, o2 \in DOMAIN ops :
    /\ ops[o1].kind = "start" /\ ops[o1].resp = "validation400"
    /\ ops[o1].input.form = "youtubeId" /\ ops[o1].found = "none"
    /\ ops[o2].kind = "start" /\ ops[o2].resp = "ok"
    /\ ops[o2].found = "completed"
    /\ ops[o2].created \in DOMAIN chats
    /\ chats[ops[o2].created].messages = <<>>
    /\ chats[ops[o2].created].isActive

\* the session is stored and closed
Closed(sid) == sid \in DOMAIN chats /\ ~chats[sid].isActive

\* C22: a closed session stays closed, and a message request that looks up
\* a closed session is answered 404 in that step, without having built a
\* prompt or pushed a message, and does nothing afterwards
C22_ClosedSessionRefusesMessages ==
  [][/\ \A sid \in DOMAIN chats : Closed(sid) => Closed(sid)'
     /\ \A t \in DOMAIN turns :
          /\ turns[t].pc = "done" => turns'[t] = turns[t]
          /\ (turns[t].pc = "findChat" /\ turns'[t] # turns[t]
                /\ Closed(turns[t].session))
               => /\ turns'[t].pc = "done"
                  /\ turns'[t].resp = "notfound404"
                  /\ turns'[t].prompt = <<>>
                  /\ turns'[t].chat = NoChat
                  /\ chats' = chats]_vars

C22_MessageAfterClose ==
  \E o \in DOMAIN ops, t1, t2 \in DOMAIN turns :
    /\ ops[o].kind = "close" /\ ops[o].resp = "ok"
    /\ Closed(ops[o].sid)
    /\ t1 < t2
    /\ turns[t1].session = ops[o].sid /\ turns[t1].resp = "ok"
    /\ turns[t2].session = ops[o].sid /\ turns[t2].resp = "notfound404"
    /\ Len(chats[ops[o].sid].messages) = Len(turns[t1].chat.messages)

\* C23: a request for a closed session finds the session, and what it
\* returns in the end are the messages of the closed session
C23_ClosedSessionStillReadable ==
  [][/\ (Arriving # 0 /\ ops'[Arriving].kind = "get"
           /\ Closed(ops'[Arriving].sid))
          => /\ ops'[Arriving].pc = "video"
             /\ ops'[Arriving].chat = chats[ops'[Arriving].sid]
     /\ \A o \in DOMAIN ops :
          (ops[o].kind = "get" /\ ops[o].pc = "video" /\ ops'[o].pc = "done"
            /\ Closed(ops[o].sid))
           => /\ ops'[o].resp = "ok"
              /\ ops'[o].body = chats[ops[o].sid].messages]_vars

\* what the handler of turn t had loaded: its document without the
\* messages it pushed itself
LoadedMessages(t) ==
  LET ms == turns[t].chat.messages
  IN SubSeq(ms, 1, Len(ms) - Cardinality({k \in DOMAIN ms : ms[k].id.t = t}))

\* every request so far is for session sid and was answered with a reply;
\* the first found the session empty and each later one found it as the one
\* before had left it
AnsweredInSequence(sid) ==
  /\ Len(turns) >= 1
  /\ \A t \in DOMAIN turns :
       /\ turns[t].session = sid
       /\ turns[t].pc = "done" /\ turns[t].resp = "ok"
       /\ LoadedMessages(t) = IF t = 1 THEN <<>> ELSE turns[t - 1].chat.messages

\* C24: after k requests on a new session, answered one after the other,
\* the session holds 2k messages: for each request, in order, its question
\* as a user message and next to it the assistant message of that request
C24_SequentialTurnsAlternate ==
  \A sid \in DOMAIN chats :
    AnsweredInSequence(sid)
      => /\ Len(chats[sid].messages) = 2 * Len(turns)
         /\ chats[sid].totalMessages = 2 * Len(turns)
         /\ \A t \in DOMAIN turns :
              /\ chats[sid].messages[2 * t - 1] = UserMessage(t)
              /\ chats[sid].messages[2 * t].role = "assistant"
              /\ chats[sid].messages[2 * t].id = [t |-> t, k |-> 2]

C24_TwoTurnsAnswered ==
  \E sid \in DOMAIN chats, o \in DOMAIN ops :
    /\ ops[o].kind = "start" /\ ops[o].created = sid
    /\ AnsweredInSequence(sid)
    /\ Len(turns) = MaxTurns
    /\ Len(chats[sid].messages) = 2 * MaxTurns

\* run r leaves its catch block in this step
CatchSaveEnds(r) == runs[r].pc = "fail" /\ runs'[r].pc = "done"

\* C25: when the catch block of a run has saved and the job is failed, the
\* error GET /status returns for the job is the message that run failed
\* with; and while the job stays failed no other step changes that error
C25_StatusReturnsLatestFailure ==
  [][\A id \in DOMAIN videos :
       (id \in DOMAIN videos' /\ videos'[id].processingStatus = "failed")
         => /\ \A r \in DOMAIN runs :
                 (runs[r].doc = id /\ CatchSaveEnds(r))
                   => StatusResponse(videos'[id]).error = runs[r].err
            /\ (/\ videos[id].processingStatus = "failed"
                /\ \A r \in DOMAIN runs : ~(runs[r].doc = id /\ CatchSaveEnds(r)))
                 => StatusResponse(videos'[id]).error
                      = StatusResponse(videos[id]).error]_vars

\* the URL is not a valid YouTube URL or has no well-formed video id where
\* the id is expected
NoValidId(url) ==
  \/ ~url.isURL
  \/ url.site \notin {"watch", "short"}
  \/ url.seg \notin WellFormedIds

C27_NewJobStoredPending ==
  [][\A i \in DOMAIN reqs :
       (reqs[i].pc = "create" /\ reqs'[i].pc # "create")
         => /\ NewVideo(reqs[i].c).processingStatus = "pending"
            /\ \E id \in DOMAIN videos' :
                 /\ id \notin DOMAIN videos
                 /\ videos'[id].videoId = reqs[i].c
                 /\ videos'[id].processingStatus = "pending"]_vars

\* the external calls of a run, in the order the run issues them
CallOrder == <<"extract", "summary", "keypoints", "tags">>

\* C28: the calls a run has issued are an initial part of extract, summary,
\* key points, tags; the summary call is issued in the step in which
\* extraction returns its data; a run whose extraction failed issues no
\* call after it
C28_SummarizationAfterExtraction ==
  [][\A r \in DOMAIN runs' :
       /\ Len(runs'[r].calls) <= Len(CallOrder)
       /\ runs'[r].calls = SubSeq(CallOrder, 1, Len(runs'[r].calls))
       /\ runs'[r].failed = "extraction" => runs'[r].calls = <<"extract">>
       /\ (r \in DOMAIN runs /\ Len(runs[r].calls) < 2 /\ Len(runs'[r].calls) >= 2)
            => /\ runs[r].pc = "extract"
               /\ runs'[r].pc = "summary"
               /\ runs'[r].calls = <<"extract", "summary">>
               /\ runs'[r].data # NoData
               /\ runs'[r].failed = "none"]_vars

C28_ExtractionFailedAndReturned ==
  \E r1, r2 \in DOMAIN runs :
    /\ runs[r1].pc = "done" /\ runs[r1].failed = "extraction"
    /\ runs[r1].calls = <<"extract">>
    /\ runs[r2].pc = "done" /\ runs[r2].calls = CallOrder

\* the stored messages of request t with the role, none when the
\* collection holds no session of its sessionId
StoredBy(t, role) ==
  IF turns[t].session \in DOMAIN chats THEN PushedBy(t, role) ELSE {}

\* the steps of a POST /message handler, in the order the handler takes them
TurnOrder ==
  <<"findChat", "findVideo", "addUser", "complete", "addAssistant", "done">>

TurnRank(pc) == CHOOSE k \in DOMAIN TurnOrder : TurnOrder[k] = pc

\* C29: a handler never goes back to an earlier step, and its completion
\* request is in flight exactly while it is at the completion step, so it
\* issues at most one; the request is issued in the step in which its user
\* message is stored, and a handler that stored its user message issues
\* it; the assistant message is stored only from the step the handler
\* reaches when the completion returned without error
C29_OneCompletionBetweenTheTwoWrites ==
  [][\A t \in DOMAIN turns :
       /\ TurnRank(turns'[t].pc) >= TurnRank(turns[t].pc)
       /\ (turns'[t].prompt # <<>>) <=> (turns'[t].pc = "complete")
       /\ (turns[t].pc # "complete" /\ turns'[t].pc = "complete")
            => /\ turns[t].pc = "addUser"
               /\ StoredBy(t, "user") = {}
               /\ Cardinality(StoredBy(t, "user")') = 1
               /\ StoredBy(t, "assistant")' = {}
       /\ (StoredBy(t, "user") = {} /\ StoredBy(t, "user")' # {})
            => turns'[t].pc = "complete"
       /\ (turns[t].pc # "addAssistant" /\ turns'[t].pc = "addAssistant")
            => /\ turns[t].pc = "complete"
               /\ turns'[t].failed = "none"
               /\ chats' = chats
       /\ StoredBy(t, "assistant")' # StoredBy(t, "assistant")
            => /\ turns[t].pc = "addAssistant"
               /\ turns[t].failed = "none"
               /\ Cardinality(StoredBy(t, "user")) = 1
               /\ Cardinality(StoredBy(t, "assistant")') = 1]_vars

C29_AnswerStoredAfterCompletion ==
  \E t \in DOMAIN turns :
    /\ turns[t].pc = "done" /\ turns[t].resp = "ok"
    /\ Cardinality(StoredBy(t, "user")) = 1
    /\ Cardinality(StoredBy(t, "assistant")) = 1
    /\ \A j \in StoredBy(t, "user"), k \in StoredBy(t, "assistant") : j < k

\* the replayed history of a prompt, in the prompt's order
Replayed(prompt) ==
  SubSeq(prompt, Len(prompt) - Cardinality(PartOf(prompt, "history")),
         Len(prompt) - 1)

\* the position of the question of request t in the stored messages
QuestionAt(t) ==
  CHOOSE k \in DOMAIN chats[turns[t].session].messages :
    chats[turns[t].session].messages[k] = UserMessage(t)

\* C30: when a handler issues its completion request, the replayed history
\* of the prompt is, in role and content, the stored messages that
\* immediately precede the handler's question in the session, in their
\* stored order; the question is the prompt's last message and its only
\* message outside the fixed ones and the replayed history
C30_ReplayIsStoredTailBeforeQuestion ==
  [][\A t \in DOMAIN turns :
       (turns[t].pc = "addUser" /\ turns'[t].pc = "complete")
         => LET prompt == turns'[t].prompt
                hist == Replayed(prompt)
                stored == chats'[turns[t].session].messages
                q == QuestionAt(t)'
            IN /\ PartOf(prompt, "question") = {Len(prompt)}
               /\ PartOf(prompt, "history") = 5..(Len(prompt) - 1)
               /\ prompt[Len(prompt)].role = "user"
               /\ prompt[Len(prompt)].content = turns[t].question
               /\ Len(hist) <= q - 1
               /\ \A i \in DOMAIN hist :
                    /\ hist[i].role = stored[q - 1 - Len(hist) + i].role
                    /\ hist[i].content = stored[q - 1 - Len(hist) + i].content]_vars

\* the session of request t is stored and open
SessionOpen(t) ==
  /\ turns[t].session \in DOMAIN chats
  /\ chats[turns[t].session].isActive

\* a completed record of the video of the session request t loaded is stored
JobCompleted(t) ==
  \E id \in DOMAIN videos :
    /\ videos[id].videoId = turns[t].chat.videoId
    /\ videos[id].processingStatus = "completed"

\* the answers of a request refused before its question was stored
Refusals == {"notfound404", "unavailable400"}

\* C31: a request whose session is missing or closed when it is looked up
\* is answered 404; a request that found its session open and whose video
\* is missing or not completed when it is looked up is answered 400; in
\* both cases the step stores nothing, and a request refused this way
\* never stores a message and never has a completion request in flight
C31_RefusalsDifferAndStoreNothing ==
  [][\A t \in DOMAIN turns :
       /\ (turns[t].pc = "findChat" /\ turns'[t].pc # "findChat")
            => /\ chats' = chats
               /\ IF SessionOpen(t)
                    THEN turns'[t].pc = "findVideo" /\ turns'[t].resp = "none"
                    ELSE turns'[t].pc = "done" /\ turns'[t].resp = "notfound404"
       /\ (turns[t].pc = "findVideo" /\ turns'[t].pc # "findVideo")
            => /\ chats' = chats
               /\ IF JobCompleted(t)
                    THEN turns'[t].pc = "addUser" /\ turns'[t].resp = "none"
                    ELSE turns'[t].pc = "done" /\ turns'[t].resp = "unavailable400"
       /\ turns'[t].resp \in Refusals
            => /\ turns'[t].prompt = <<>>
               /\ StoredBy(t, "user")' = {}
               /\ StoredBy(t, "assistant")' = {}
       /\ turns[t].resp \in Refusals => turns'[t] = turns[t]]_vars

C31_BothRefusalsGiven ==
  \E t1, t2 \in DOMAIN turns :
    /\ turns[t1].resp = "notfound404"
    /\ turns[t2].resp = "unavailable400"
    /\ turns[t2].chat.isActive
    /\ \A sid \in DOMAIN chats : \A k \in DOMAIN chats[sid].messages :
         chats[sid].messages[k].id.t = 0

IsPrefix(a, b) == Len(a) <= Len(b) /\ a = SubSeq(b, 1, Len(a))

\* C32: in every step of the start, message, get and close handlers, each
\* stored session stays stored and the messages it held before the step
\* are an initial part of the messages it holds after it, also when the
\* message handlers of one session overlap
C32_MessagesOnlyAppended ==
  [][\A sid \in DOMAIN chats :
       /\ sid \in DOMAIN chats'
       /\ IsPrefix(chats[sid].messages, chats'[sid].messages)
       /\ Len(chats'[sid].messages) <= Len(chats[sid].messages) + 1]_vars

\* two requests that loaded the same messages have both stored theirs
C32_OverlappingTurnsStored ==
  \E t1, t2 \in DOMAIN turns :
    /\ t1 < t2
    /\ turns[t1].session = turns[t2].session
    /\ LoadedMessages(t1) = LoadedMessages(t2)
    /\ StoredBy(t1, "user") # {} /\ StoredBy(t2, "user") # {}
    /\ StoredBy(t1, "assistant") # {} /\ StoredBy(t2, "assistant") # {}

\* C33: the videoId of every stored session is that of a stored video
\* whose status is completed
C33_SessionsReferToCompletedJobs ==
  \A sid \in DOMAIN chats :
    \E id \in DOMAIN videos :
      /\ videos[id].videoId = chats[sid].videoId
      /\ videos[id].processingStatus = "completed"

\* the number of times a run has issued the call
Issued(run, what) ==
  Cardinality({k \in DOMAIN run.calls : run.calls[k] = what})

\* C34: a run is started only in the create or update step of a request,
\* one run for one request, so none starts without a new request; a run
\* only adds to the calls it has issued, issues each of the four calls at
\* most once and does nothing once it has returned; a message handler
\* leaves the completion step when the completion is answered, never
\* comes back to it, and after a failure does nothing more
C34_NothingRetried ==
  [][/\ \A r \in DOMAIN runs' :
          /\ r \notin DOMAIN runs
               => \E i \in DOMAIN reqs :
                    /\ reqs[i].pc \in {"create", "update"}
                    /\ reqs'[i].pc = "done"
                    /\ runs'[r].by = i
                    /\ runs'[r].calls = <<>>
                    /\ \A q \in DOMAIN runs : runs[q].by # i
          /\ \A k \in DOMAIN CallOrder : Issued(runs'[r], CallOrder[k]) <= 1
          /\ r \in DOMAIN runs
               => /\ IsPrefix(runs[r].calls, runs'[r].calls)
                  /\ runs[r].pc = "done" => runs'[r] = runs[r]
     /\ \A t \in DOMAIN turns :
          /\ (turns[t].pc = "complete" /\ turns'[t] # turns[t])
               => turns'[t].pc \in {"addAssistant", "done"}
          /\ (turns'[t].pc = "complete" /\ turns[t].pc # "complete")
               => turns[t].pc = "addUser" /\ turns[t].failed = "none"
          /\ turns[t].failed # "none"
               => /\ turns'[t] = turns[t]
                  /\ turns[t].pc = "done"
                  /\ turns[t].prompt = <<>>]_vars

\* a run ended failed, a later request for the same video started the next
\* run, and that run has called the extraction
C34_ResubmittedAfterFailure ==
  \E r1, r2 \in DOMAIN runs :
    /\ r1 < r2 /\ runs[r1].c = runs[r2].c
    /\ runs[r1].pc = "done" /\ runs[r1].outcome = "failed"
    /\ runs[r1].by < runs[r2].by
    /\ reqs[runs[r2].by].found = "failed"
    /\ Issued(runs[r2], "extract") = 1

\* C35: a run reaches updateVideoHistory only from the save that resolved,
\* and the job is then stored as completed; the steps of updateVideoHistory
\* leave every job record as it is, whether the history write is accepted
\* or rejected; when the run leaves updateVideoHistory the history holds an
\* entry for its videoId
C35_HistoryAfterCompletedSave ==
  [][\A r \in DOMAIN runs :
       /\ (runs[r].pc # "history" /\ runs'[r].pc = "history")
            => /\ runs[r].pc = "save"
               /\ videos'[runs[r].doc].processingStatus = "completed"
       /\ (runs[r].pc \in {"history", "touch"} /\ runs'[r] # runs[r])
            => videos' = videos
       /\ (runs[r].pc = "touch" /\ runs'[r].pc = "done")
            => history'[runs[r].c] > 0]_vars

\* the status request that arrives in this step, 0 when none does
Polled ==
  IF Len(ops') = Len(ops) + 1 /\ ops'[Len(ops')].kind = "status"
    THEN Len(ops') ELSE 0

\* C36: a status request changes no job record, no history entry and no
\* run; when it finds the record its progress is 100 exactly when the
\* stored status is completed, 50 exactly when it is processing and 0
\* otherwise, and it returns the stored status
C36_ProgressFollowsStatus ==
  [][Polled # 0
       => /\ <<videos, history, runs, reqs>>' = <<videos, history, runs, reqs>>
          /\ LET op == ops'[Polled]
                 id == op.input.id
             IN (IsMongoId(op.input) /\ id \in DOMAIN videos)
                  => /\ op.resp = "ok"
                     /\ op.body.status = videos[id].processingStatus
                     /\ op.body.progress \in {0, 50, 100}
                     /\ op.body.progress = 100
                          <=> videos[id].processingStatus = "completed"
                     /\ op.body.progress = 50
                          <=> videos[id].processingStatus = "processing"]_vars

\* a run has failed and a request found the job failed
C36_FailedJobPolled ==
  \E o \in DOMAIN ops, r \in DOMAIN runs :
    /\ runs[r].outcome = "failed"
    /\ ops[o].resp = "ok" /\ ops[o].body.status = "failed"
    /\ ops[o].body.progress = 0

\* C39: a status request made with the identifier that the answer to an
\* analysis request gave the client (processing response or cache hit) is
\* answered with the status data of the record of that request's video
C39_ReturnedIdentifierPolls ==
  [][Polled # 0
       => \A i \in DOMAIN reqs :
            (/\ reqs[i].resp \in {"started", "cached"}
             /\ ops'[Polled].input = ReturnedId(reqs[i]))
              => /\ ops'[Polled].resp = "ok"
                 /\ ops'[Polled].body.videoId \in DOMAIN videos
                 /\ videos[ops'[Polled].body.videoId].videoId = reqs[i].c]_vars

\* C40: the stored totalMessages of every session is the number of
\* messages stored in the session
C40_TotalMessagesIsStoredCount ==
  \A sid \in DOMAIN chats :
    chats[sid].totalMessages = Len(chats[sid].messages)

\* the cache-hit requests for the video that have been answered
ViewsAnswered(c) ==
  {i \in DOMAIN reqs : reqs[i].c = c /\ reqs[i].resp = "cached"}

\* every request so far for the video found its record completed, and no
\* request is still in its handler
OnlyViewed(c) ==
  /\ runs = <<>>
  /\ \E i \in DOMAIN reqs : reqs[i].c = c
  /\ \A i \in DOMAIN reqs :
       reqs[i].c = c => reqs[i].found = "completed" /\ reqs[i].pc = "done"

\* C38: when the only requests for a video were cache hits, all answered,
\* the access count of its history entry is the count the server started
\* with (1, the entry of a completed video) plus the number of those
\* requests
C38_AccessCountCountsViews ==
  \A c \in Contents :
    OnlyViewed(c) => history[c] = 1 + Cardinality(ViewsAnswered(c))

\* the message thrown for an error with the status and the code
Named(status, code) ==
  MakeRequestError([status |-> status, code |-> code, message |-> ""])

\* the messages of the four named kinds: rate limit, unauthorized,
\* insufficient quota, timeout
NamedMessages ==
  {Named(429, ""), Named(401, ""), Named(402, ""), Named(0, "ECONNABORTED")}

\* C37: the four named messages are pairwise distinct; an error with
\* status 429, 401 or 402 is thrown with the message of its status
\* whatever its code and message, any other error with code ECONNABORTED
\* with the timeout message, and every other error with 'AI service
\* error: ' and its own message, which is none of the four
C37_FailuresMappedToFiveKinds ==
  (call.op = "makeRequest" /\ call.done)
    => LET error == call.input
           thrown == call.out
       IN /\ Cardinality(NamedMessages) = 4
          /\ error.status \in {429, 401, 402} => thrown = Named(error.status, "")
          /\ (error.status \notin {429, 401, 402} /\ error.code = "ECONNABORTED")
               => thrown = Named(0, "ECONNABORTED")
          /\ (error.status \notin {429, 401, 402} /\ error.code # "ECONNABORTED")
               => /\ thrown \notin NamedMessages
                  /\ thrown = "AI service error: " \o error.message

\* an error whose own message is that of the rate limit was rethrown
C37_UnknownWithNamedText ==
  /\ call.op = "makeRequest" /\ call.done
  /\ call.input.status = 500 /\ call.input.code = "ECONNRESET"
  /\ call.input.message = Named(429, "")
  /\ call.out \notin NamedMessages

====
